---- MODULE Spec2Model ----
(***************************************************************************)
(* Model of the two-tier response cache (src/src/cache/tieredCache.js):    *)
(* a fast tier (Redis) in front of a persistent tier (the PostgreSQL table *)
(* cached_responses).  Each public method of TieredCache is one action;    *)
(* the Redis connection events, the expiry of keys with time and the       *)
(* failure of single Redis commands are the environment.                   *)
(***************************************************************************)
EXTENDS Integers, Sequences, FiniteSets, TLC

VARIABLES
  db,            \* cached_responses: sequence of rows, a row's id is its index
  redis,         \* the Redis keyspace: key -> [data, exp], present keys only
  redisEnabled,  \* this.redisEnabled
  initialized,   \* this.initialized
  now,           \* the wall clock, in seconds
  last,          \* the last call: its name, arguments and what it returned
  curated,       \* history: the keys a cacheSet with createdBy 'manual' wrote
  steps,         \* the number of steps taken so far
  memo,          \* CommentScorer.cache: [key, value] pairs in insertion order
  pending,       \* the scoreFeedback calls that await the chat completion
  source_scores,       \* the committed rows of source_scores, by source_key
  query_patterns,      \* the committed rows of query_patterns, by pattern_key
  feedback_cache_meta, \* the committed row id = 1 of feedback_cache_meta
  tx,            \* the analyzeFeedback call of each client and its transaction
  adj,           \* the adjustRetrievalScores call in progress, with the
                 \* committed states of the tables since it began (history)
  chat,          \* the StreamingChatClient and its sendMessage calls
  inflight       \* the call of TieredCache each client has in progress, or
                 \* the last one it made (history)

cacheVars == <<db, redis, redisEnabled, initialized, now, curated>>
scorerVars == <<memo, pending>>
learnVars == <<source_scores, query_patterns, feedback_cache_meta, tx, adj>>
vars == <<db, redis, redisEnabled, initialized, now, last, curated, steps, memo,
          pending, source_scores, query_patterns, feedback_cache_meta, tx, adj,
          chat, inflight>>

(***************************************************************************)
(* Bounds and program constants.                                           *)
(***************************************************************************)
\* Length of the behaviours explored: calls and environment events.
MaxSteps == 5
\* Cap of the feedback events recorded on one row.
MaxFeedback == 1
\* The instants at which the clock is observed (seconds).
Instants == {0, 84600, 86400}

\* CACHE_MIN_CONFIDENCE default '0.75'; confidences are in hundredths.
minConfidence == 75
\* this.redisTTL = 3600
redisTTL == 3600
\* INTERVAL '1 day', in seconds
SecondsPerDay == 86400

\* The tables of the feedback learning after ensureTables: no score, no
\* pattern, the metadata row with its defaults; no call in progress
Clients == {1, 2}
IdleTx ==
  [pc |-> "idle", run |-> 0, feedbackData |-> <<>>,
   sourceScores |-> <<>>, queryPatterns |-> <<>>, llmCallCount |-> 0, i |-> 1,
   snap |-> {}, delS |-> {}, wS |-> <<>>, delP |-> {}, wP |-> <<>>,
   wMeta |-> <<>>, overlapped |-> FALSE]
IdleAdjust == [pc |-> "idle", calls |-> 0]
\* No call of the cache has been made
NoCalls == [p \in Clients |-> [pc |-> "idle", id |-> 0, peers |-> {}]]
\* new StreamingChatClient(config): no stream, no controller, no call
NewChat == [isStreaming |-> FALSE, abortController |-> 0, calls |-> <<>>]
\* No call of the comment scorer is in progress
IdleCall == [pc |-> "idle"]
NoPending == [p \in Clients |-> IdleCall]
LearnInitial ==
  /\ source_scores = <<>>
  /\ query_patterns = <<>>
  /\ feedback_cache_meta = [sources_analyzed |-> 0, patterns_identified |-> 0,
                            total_feedback |-> 0, llm_analyzed |-> 0]
  /\ tx = [p \in Clients |-> IdleTx]
  /\ adj = IdleAdjust

\* An absent string field of a result (an absent id or time is 0)
NoValue == "undefined"
NoSession == "null"

(***************************************************************************)
(* Questions are sequences of characters.                                  *)
(***************************************************************************)
Q_Upper   == <<"A", "b", "?">>
Q_Plain   == <<"a", "b">>
Q_Other   == <<"b">>
Q_OtherP  == <<"b", "?">>
\* The calls of cacheGet: a question, in a spelling that is not the one
\* cacheSet is called with for that key, and a session
GetInputs == {<<Q_Plain, NoSession>>, <<Q_OtherP, NoSession>>, <<Q_Plain, "s1">>}

toLowerCase(c) ==
  CASE c = "A" -> "a"
    [] c = "B" -> "b"
    [] c = "R" -> "r"
    [] OTHER   -> c

\* \s of the regular expressions
IsSpace(c) == c \in {" "}
\* \w of the regular expressions
IsWord(c) == c \in {"a", "b", "A", "B", "_", "1",
                     "c", "e", "m", "o", "r", "t", "w", "y", "9", "R"}

RECURSIVE trimStart(_)
trimStart(s) ==
  IF s # <<>> /\ IsSpace(Head(s)) THEN trimStart(Tail(s)) ELSE s

RECURSIVE trimEnd(_)
trimEnd(s) ==
  IF s # <<>> /\ IsSpace(s[Len(s)]) THEN trimEnd(SubSeq(s, 1, Len(s) - 1)) ELSE s

trim(s) == trimEnd(trimStart(s))

\* .replace(/[^\w\s]/g, '')
StripPunctuation(s) == SelectSeq(s, LAMBDA c : IsWord(c) \/ IsSpace(c))

\* .replace(/\s+/g, ' ')
RECURSIVE CollapseSpaces(_)
CollapseSpaces(s) ==
  IF s = <<>> THEN <<>>
  ELSE IF IsSpace(Head(s))
       THEN <<" ">> \o CollapseSpaces(trimStart(s))
       ELSE <<Head(s)>> \o CollapseSpaces(Tail(s))

_normalizeQuestion(question) ==
  CollapseSpaces(StripPunctuation(trim(
    [i \in 1..Len(question) |-> toLowerCase(question[i])])))

\* md5 of the normalized question, taken to be collision free
md5(normalized) == normalized

generateCacheKey(question, sessionId) ==
  <<md5(_normalizeQuestion(question)), sessionId>>

(***************************************************************************)
(* Inputs of cacheSet.                                                     *)
(***************************************************************************)
\* A source given as a bare string, and one given as an object whose url
\* lacks the scheme.
SrcString == [kind |-> "string", value |-> "handbook.pdf"]
SrcObject == [kind |-> "object", text |-> "passage", title |-> "PTO",
              url |-> <<"example.com">>, score |-> 90]

Payloads == {[response |-> "a1", sources |-> <<SrcString>>],
             [response |-> "a2", sources |-> <<SrcObject>>]}
Confidences    == {50, 80}
TtlChoices     == {1}
VariationLists == {<<>>, <<Q_Other>>, <<Q_OtherP>>}
Creators       == {"auto", "manual"}
Ratings        == {1, -1, 0}
\* The calls of cacheSet.  On the first key: every answer, confidence and
\* origin without variations, and each variation list with one answer and
\* confidence.  On the second key: one fixed write.
SetInputs ==
  [question : {Q_Upper}, payload : Payloads, confidence : Confidences,
   ttlDays : TtlChoices, variations : {<<>>}, createdBy : Creators]
  \cup
  [question : {Q_Upper}, payload : {[response |-> "a1", sources |-> <<SrcString>>]},
   confidence : {80}, ttlDays : TtlChoices, variations : VariationLists,
   createdBy : Creators]
  \cup
  [question : {Q_Other}, payload : {[response |-> "a1", sources |-> <<SrcString>>]},
   confidence : {80}, ttlDays : TtlChoices, variations : {<<>>},
   createdBy : {"auto"}]
\* The Redis command of a call that throws, if any: the ping of
\* initialize(), the first or the second command of the method body.
FailPoints     == {"none", "ping", "first", "second"}

(***************************************************************************)
(* Sources: enrichment on write (set), link formatting on read.            *)
(***************************************************************************)
\* sources.map(...) of set
EnrichSource(source) ==
  IF source.kind = "string"
  THEN [shape |-> "text", text |-> source.value, title |-> "", url |-> <<>>,
        score |-> 0]
  ELSE [shape |-> "full", text |-> source.text, title |-> source.title,
        url |-> source.url, score |-> source.score]

enrichedSources(sources) ==
  [i \in 1..Len(sources) |-> EnrichSource(sources[i])]

startsWithHttp(url) == url # <<>> /\ Head(url) \in {"http://", "https://"}

\* _parseSources: the stored sources are objects; a url without scheme gets one
_parseSources(sourcesJson) ==
  [i \in 1..Len(sourcesJson) |->
     IF sourcesJson[i].url # <<>> /\ ~startsWithHttp(sourcesJson[i].url)
     THEN [sourcesJson[i] EXCEPT !.url = <<"https://">> \o @]
     ELSE sourcesJson[i]]

_buildCacheResponse(row, id, hitType) ==
  [cached |-> TRUE, hitType |-> hitType, response |-> row.response_text,
   sources |-> _parseSources(row.sources_used),
   confidence |-> row.cache_confidence, cacheId |-> id,
   cacheSource |-> "postgresql"]

(***************************************************************************)
(* The fast tier.                                                          *)
(***************************************************************************)
\* redis.setex(key, ttl, value) at time t
setex(r, key, ttl, value, t) ==
  [k \in DOMAIN r \cup {key} |->
     IF k = key THEN [data |-> value, exp |-> t + ttl] ELSE r[k]]

\* redis.expire(key, ttl) at time t
expire(r, key, ttl, t) == [r EXCEPT ![key].exp = t + ttl]

\* The keys Redis still holds at time t
Unexpired(r, t) == [k \in {x \in DOMAIN r : r[x].exp > t} |-> r[k]]

\* The first n commands of a sequence of setex commands, applied in order
RECURSIVE ApplySetex(_, _, _, _)
ApplySetex(r, cmds, n, t) ==
  IF n = 0 \/ cmds = <<>> THEN r
  ELSE ApplySetex(setex(r, Head(cmds).key, redisTTL, Head(cmds).value, t),
                  Tail(cmds), n - 1, t)

EmptyRedis == [k \in {} |-> 0]

(***************************************************************************)
(* initialize(): on the first call, ping Redis when it is enabled.         *)
(***************************************************************************)
PingIssued == ~initialized /\ redisEnabled
\* initialize() throws: the ping failed
InitializeFails(failAt) == PingIssued /\ failAt = "ping"
\* The n-th Redis command of the method body throws
Fails(failAt, n) == (n = 1 /\ failAt = "first") \/ (n = 2 /\ failAt = "second")

(***************************************************************************)
(* The persistent tier.                                                    *)
(***************************************************************************)
\* SELECT ... WHERE question_normalized = $1 (set): the ids found
ExistingIds(rows, normalized) ==
  {i \in DOMAIN rows : rows[i].question_normalized = normalized}

MinOf(S) == CHOOSE x \in S : \A y \in S : x <= y

\* The gate without the test of the creation origin
IsProtected_FeedbackOnly(existing, confidence) ==
  /\ existing.positive_feedback > existing.negative_feedback
  /\ existing.cache_confidence >= confidence

\* The protection gate of set
IsProtected(existing, confidence) ==
  LET isManual == existing.created_by # "auto"
      hasPositiveFeedback == existing.positive_feedback > existing.negative_feedback
      hasBetterConfidence == existing.cache_confidence >= confidence
  IN  isManual \/ (hasPositiveFeedback /\ hasBetterConfidence)

NewRow(normalized, variations, response, sources, confidence, ttlDays, createdBy, t) ==
  [question_normalized |-> normalized,
   question_variations |-> variations,
   response_text       |-> response,
   sources_used        |-> sources,
   cache_confidence    |-> confidence,
   ttl_days            |-> ttlDays,
   expires_at          |-> t + SecondsPerDay * ttlDays,
   created_by          |-> createdBy,
   positive_feedback   |-> 0,
   negative_feedback   |-> 0,
   neutral_feedback    |-> 0,
   is_active           |-> TRUE]

\* An insert that ignores the conflict on question_normalized
Upsert_AlwaysInsert(rows, normalized, variations, response, sources, confidence, ttlDays, createdBy, t) ==
  Append(rows, NewRow(normalized, variations, response, sources,
                      confidence, ttlDays, createdBy, t))

\* INSERT ... ON CONFLICT (question_normalized) DO UPDATE SET ...
Upsert(rows, normalized, variations, response, sources, confidence, ttlDays, createdBy, t) ==
  LET ids == ExistingIds(rows, normalized)
  IN  IF ids = {}
      THEN Append(rows, NewRow(normalized, variations, response, sources,
                               confidence, ttlDays, createdBy, t))
      ELSE [rows EXCEPT ![MinOf(ids)] =
              [@ EXCEPT !.response_text       = response,
                        !.sources_used        = sources,
                        !.cache_confidence    = confidence,
                        !.question_variations = variations,
                        !.expires_at          = t + SecondsPerDay * ttlDays,
                        !.is_active           = TRUE]]

\* RETURNING id
UpsertId(rows, normalized) ==
  LET ids == ExistingIds(rows, normalized)
  IN  IF ids = {} THEN Len(rows) + 1 ELSE MinOf(ids)

(***************************************************************************)
(* set(question, response, sources, options)                               *)
(***************************************************************************)
Set(question, payload, confidence, ttlDays, variations, createdBy, failAt) ==
  LET normalized == _normalizeQuestion(question)
      call == [op |-> "set", question |-> question, response |-> payload.response,
               sources |-> payload.sources, confidence |-> confidence,
               ttlDays |-> ttlDays, variations |-> variations,
               createdBy |-> createdBy]
      ids      == ExistingIds(db, normalized)
      enriched == enrichedSources(payload.sources)
      cacheId  == UpsertId(db, normalized)
      cacheData == [cached |-> TRUE, hitType |-> "exact",
                    response |-> payload.response, sources |-> enriched,
                    confidence |-> confidence, cacheId |-> cacheId,
                    cacheSource |-> "redis"]
      cmds == <<[key |-> generateCacheKey(question, NoSession), value |-> cacheData]>>
              \o [i \in 1..Len(variations) |->
                    [key |-> generateCacheKey(variations[i], NoSession),
                     value |-> [cacheData EXCEPT !.hitType = "variation"]]]
      \* the commands that ran before one threw, and whether one threw
      failed == \E n \in 1..Len(cmds) : Fails(failAt, n)
      done   == IF failed THEN (IF failAt = "first" THEN 0 ELSE 1) ELSE Len(cmds)
  IN  IF InitializeFails(failAt)
      THEN /\ last' = call @@ [raised |-> TRUE, threw |-> TRUE]
           /\ UNCHANGED <<db, redis, redisEnabled, initialized, now, curated>>
      ELSE /\ initialized' = TRUE
           /\ UNCHANGED <<redisEnabled, now>>
           /\ IF ids # {} /\ IsProtected(db[MinOf(ids)], confidence)
              THEN /\ last' = call @@ [raised |-> FALSE, threw |-> FALSE,
                                       res |-> [success |-> FALSE, reason |-> "protected",
                                                cacheId |-> MinOf(ids), expiresAt |-> 0,
                                                error |-> NoValue]]
                   /\ UNCHANGED <<db, redis>>
              ELSE /\ db' = Upsert(db, normalized, variations, payload.response,
                                   enriched, confidence, ttlDays, createdBy, now)
                   /\ IF redisEnabled
                      THEN /\ redis' = ApplySetex(redis, cmds, done, now)
                           /\ last' = call @@ [raised |-> FALSE, threw |-> failed,
                                res |-> IF failed
                                        THEN [success |-> FALSE, reason |-> NoValue,
                                              cacheId |-> 0, expiresAt |-> 0,
                                              error |-> "redis"]
                                        ELSE [success |-> TRUE, reason |-> NoValue,
                                              cacheId |-> cacheId,
                                              expiresAt |-> db'[cacheId].expires_at,
                                              error |-> NoValue]]
                      ELSE /\ redis' = redis
                           /\ last' = call @@ [raised |-> FALSE, threw |-> FALSE,
                                res |-> [success |-> TRUE, reason |-> NoValue,
                                         cacheId |-> cacheId,
                                         expiresAt |-> db'[cacheId].expires_at,
                                         error |-> NoValue]]
           /\ curated' = IF last'.res.success /\ createdBy = "manual"
                         THEN curated \cup {normalized}
                         ELSE curated

(***************************************************************************)
(* get(question, sessionId)                                                *)
(***************************************************************************)
\* The filter without the test of the active flag
Servable_Inactive(row, t) ==
  /\ row.expires_at > t
  /\ row.cache_confidence >= minConfidence

\* The rows a persistent-tier lookup may return: active, not expired, at or
\* above the confidence floor
Servable(row, t) ==
  /\ row.is_active
  /\ row.expires_at > t
  /\ row.cache_confidence >= minConfidence

\* WHERE question_normalized = $1 AND ...
ExactMatches(rows, normalized, t) ==
  {i \in DOMAIN rows : /\ rows[i].question_normalized = normalized
                       /\ Servable(rows[i], t)}

\* WHERE $1 = ANY(question_variations) AND ...
VariationMatches(rows, normalized, t) ==
  {i \in DOMAIN rows :
     /\ \E j \in 1..Len(rows[i].question_variations) :
          rows[i].question_variations[j] = normalized
     /\ Servable(rows[i], t)}

\* _recordHit only adds to times_served, last_served and cache_hit_log, which
\* no method reads back: the serve statistics are not part of the rows here.

\* A promotion that writes nothing
_promoteToRedis_Skipped(r, enabled, commandFails, cacheKey, cacheData, t) == r

\* _promoteToRedis: a failure of the command is swallowed
_promoteToRedis(r, enabled, commandFails, cacheKey, cacheData, t) ==
  IF enabled /\ ~commandFails
  THEN setex(r, cacheKey, redisTTL, cacheData, t)
  ELSE r

Null == [cached |-> FALSE]

Get(question, sessionId, failAt) ==
  LET normalized == _normalizeQuestion(question)
      cacheKey   == generateCacheKey(question, sessionId)
      call == [op |-> "get", question |-> question, sessionId |-> sessionId]
      \* tier 1: redis.get, then redis.expire when there is data
      found    == /\ redisEnabled
                  /\ ~Fails(failAt, 1)
                  /\ cacheKey \in DOMAIN redis
                  /\ redis[cacheKey].exp > now
      tier1Hit == found /\ ~Fails(failAt, 2)
      \* the setex of a promotion is the second command when redis.get ran
      \* and returned nothing
      promoteFails == redisEnabled /\ ~found /\ Fails(failAt, 2)
      lookupThrew  == redisEnabled /\ (Fails(failAt, 1) \/ (found /\ Fails(failAt, 2)))
      exact     == ExactMatches(db, normalized, now)
      variation == VariationMatches(db, normalized, now)
      FromPostgres(id, hitType) ==
        LET cacheData == _buildCacheResponse(db[id], id, hitType)
        IN  /\ redis' = _promoteToRedis(redis, redisEnabled, promoteFails,
                                        cacheKey, cacheData, now)
            /\ db' = db
            /\ last' = call @@ [raised |-> FALSE, res |-> cacheData,
                                threw |-> lookupThrew \/ promoteFails]
  IN  IF InitializeFails(failAt)
      THEN /\ last' = call @@ [raised |-> TRUE, threw |-> TRUE]
           /\ UNCHANGED <<db, redis, redisEnabled, initialized, now, curated>>
      ELSE /\ initialized' = TRUE
           /\ UNCHANGED <<redisEnabled, now, curated>>
           /\ IF tier1Hit
              THEN LET cached == redis[cacheKey].data
                   IN  /\ redis' = expire(redis, cacheKey, redisTTL, now)
                       /\ db' = db
                       /\ last' = call @@ [raised |-> FALSE, threw |-> FALSE,
                                    res |-> [cached EXCEPT !.cacheSource = "redis"]]
              ELSE IF exact # {}
              THEN \E id \in exact : FromPostgres(id, "exact")
              ELSE IF variation # {}
              THEN \E id \in variation : FromPostgres(id, "variation")
              ELSE /\ last' = call @@ [raised |-> FALSE, res |-> Null,
                                       threw |-> lookupThrew]
                   /\ UNCHANGED <<db, redis>>

(***************************************************************************)
(* updateFeedback(cacheId, rating)                                         *)
(***************************************************************************)
\* Feedback events recorded on a row
FeedbackCount(row) ==
  row.positive_feedback + row.negative_feedback + row.neutral_feedback

\* The counters of the two non-neutral ratings exchanged
FeedbackField_Swapped(rating) ==
  IF rating = 1 THEN "negative_feedback"
  ELSE IF rating = -1 THEN "positive_feedback"
  ELSE "neutral_feedback"

FeedbackField(rating) ==
  IF rating = 1 THEN "positive_feedback"
  ELSE IF rating = -1 THEN "negative_feedback"
  ELSE "neutral_feedback"

UpdateFeedback(cacheId, rating, failAt) ==
  LET field == FeedbackField(rating)
      call  == [op |-> "updateFeedback", cacheId |-> cacheId, rating |-> rating]
  IN  IF InitializeFails(failAt)
      THEN /\ last' = call @@ [raised |-> TRUE, threw |-> TRUE]
           /\ UNCHANGED <<db, redis, redisEnabled, initialized, now, curated>>
      ELSE /\ initialized' = TRUE
           /\ cacheId \in DOMAIN db => FeedbackCount(db[cacheId]) < MaxFeedback
           /\ db' = IF cacheId \in DOMAIN db
                    THEN [db EXCEPT ![cacheId][field] = @ + 1]
                    ELSE db
           /\ last' = call @@ [raised |-> FALSE, threw |-> FALSE]
           /\ UNCHANGED <<redis, redisEnabled, now, curated>>

(***************************************************************************)
(* clearRedisCache() and invalidate(cacheId)                               *)
(***************************************************************************)
\* keys('cache:*') then del(...keys) when there are keys: one of them throws
ClearThrows(r, enabled, failAt, t) ==
  /\ enabled
  /\ Fails(failAt, 1) \/ (Unexpired(r, t) # EmptyRedis /\ Fails(failAt, 2))

\* clearRedisCache: a command that throws is swallowed
ClearedRedis(r, enabled, failAt, t) ==
  IF enabled /\ ~ClearThrows(r, enabled, failAt, t) THEN EmptyRedis ELSE r

ClearRedisCache(failAt) ==
  /\ redis' = ClearedRedis(redis, redisEnabled, failAt, now)
  /\ last' = [op |-> "clearRedisCache", raised |-> FALSE,
              threw |-> ClearThrows(redis, redisEnabled, failAt, now)]
  /\ UNCHANGED <<db, redisEnabled, initialized, now, curated>>

Invalidate(cacheId, failAt) ==
  LET call == [op |-> "invalidate", cacheId |-> cacheId]
  IN  IF InitializeFails(failAt)
      THEN /\ last' = call @@ [raised |-> TRUE, threw |-> TRUE]
           /\ UNCHANGED <<db, redis, redisEnabled, initialized, now, curated>>
      ELSE /\ initialized' = TRUE
           /\ db' = IF cacheId \in DOMAIN db
                    THEN [db EXCEPT ![cacheId].is_active = FALSE]
                    ELSE db
           /\ redis' = ClearedRedis(redis, redisEnabled, failAt, now)
           /\ last' = call @@ [raised |-> FALSE, res |-> TRUE,
                               threw |-> ClearThrows(redis, redisEnabled, failAt, now)]
           /\ UNCHANGED <<redisEnabled, now, curated>>

(***************************************************************************)
(* The environment: connection events of the Redis client, and time.       *)
(***************************************************************************)
Event == [op |-> "event", raised |-> FALSE, threw |-> FALSE]

\* this.redis.on('connect' | 'ready')
RedisConnect ==
  /\ ~redisEnabled
  /\ redisEnabled' = TRUE
  /\ last' = Event
  /\ UNCHANGED <<db, redis, initialized, now, curated>>

\* this.redis.on('error'), retryStrategy giving up
RedisError ==
  /\ redisEnabled
  /\ redisEnabled' = FALSE
  /\ last' = Event
  /\ UNCHANGED <<db, redis, initialized, now, curated>>

\* Time passes; Redis drops the keys whose TTL has run out
Tick ==
  \E t \in Instants :
    /\ t > now
    /\ now' = t
    /\ redis' = Unexpired(redis, t)
    /\ last' = Event
    /\ UNCHANGED <<db, redisEnabled, initialized, curated>>

(***************************************************************************)
(* The specification.                                                      *)
(***************************************************************************)
Init ==
  /\ db = <<>>
  /\ redis = EmptyRedis
  /\ redisEnabled = FALSE
  /\ initialized = FALSE
  /\ now = 0
  /\ last = [op |-> "new", raised |-> FALSE, threw |-> FALSE]
  /\ curated = {}
  /\ steps = 0
  /\ memo = <<>> /\ pending = NoPending /\ chat = NewChat /\ inflight = NoCalls
  /\ LearnInitial

\* Every step counts against the length explored; the cache does not touch
\* the state of the feedback modules
Budget ==
  steps < MaxSteps /\ steps' = steps + 1 /\ UNCHANGED <<scorerVars, learnVars, chat, inflight>>

\* The command chosen to throw is one the call issues
Met(failAt) == failAt # "none" => last'.threw

CacheSet ==
  \E in \in SetInputs, failAt \in FailPoints :
    /\ Budget
    /\ Set(in.question, in.payload, in.confidence, in.ttlDays, in.variations,
           in.createdBy, failAt)
    /\ Met(failAt)

CacheGet ==
  \E in \in GetInputs, failAt \in FailPoints :
    Budget /\ Get(in[1], in[2], failAt) /\ Met(failAt)

CacheFeedback ==
  \E cacheId \in 1..(Len(db) + 1), rating \in Ratings, failAt \in FailPoints :
    Budget /\ UpdateFeedback(cacheId, rating, failAt) /\ Met(failAt)

CacheInvalidate ==
  \E cacheId \in 1..(Len(db) + 1), failAt \in FailPoints :
    Budget /\ Invalidate(cacheId, failAt) /\ Met(failAt)

CacheClear ==
  \E failAt \in FailPoints : Budget /\ ClearRedisCache(failAt) /\ Met(failAt)

Connect == Budget /\ RedisConnect

Disconnect == Budget /\ RedisError

Advance == Budget /\ Tick

Next ==
  \/ CacheSet
  \/ CacheGet
  \/ CacheFeedback
  \/ CacheInvalidate
  \/ CacheClear
  \/ Connect
  \/ Disconnect
  \/ Advance

Spec == Init /\ [][Next]_vars

(***************************************************************************)
(* The comment scorer (src/src/feedback/commentScorer.js).  Weights are in *)
(* tenths: 1.0 is 10, 0.7 is 7, 0.3 is 3, -2.0 is -20.  A comment is one   *)
(* of a few strings; the regular expressions of getDefaultPatterns are     *)
(* tabulated on them.  The fields severity and confidence of a result are  *)
(* read by nobody and are left out.                                        *)
(***************************************************************************)
\* Calls explored in the scorer's specification
MaxCalls == 3
\* options.maxCacheSize (1000 by default)
maxCacheSize == 2

Comments == {"thanks", "link is broken", "wrong", "helpful but incomplete",
             "ok", "answers my question", "old and broken"}

\* The patterns of getDefaultPatterns that match a comment
getDefaultPatterns(comment) ==
  CASE comment = "thanks"                 -> {"positive"}
    [] comment = "link is broken"         -> {"broken_link"}
    [] comment = "wrong"                  -> {"wrong_info"}
    [] comment = "helpful but incomplete" -> {"partial", "positive"}
    [] comment = "old and broken"         -> {"broken_link", "outdated"}
    [] OTHER                              -> {}

\* comment.length
CommentLength(comment) ==
  CASE comment = "thanks"                 -> 6
    [] comment = "link is broken"         -> 14
    [] comment = "wrong"                  -> 5
    [] comment = "helpful but incomplete" -> 22
    [] comment = "ok"                     -> 2
    [] comment = "answers my question"    -> 19
    [] comment = "old and broken"         -> 14
    [] OTHER                              -> 0

\* !feedback.comments
NoComments(feedback) == feedback.comments \in {NoValue, ""}

ScoreResult(adjustedRating, weight, issues, needsLLM) ==
  [adjustedRating |-> adjustedRating, weight |-> weight, issues |-> issues,
   needsLLM |-> needsLLM]

MinWeight(a, b) == IF a < b THEN a ELSE b

\* quickScore(feedback)
quickScore(feedback) ==
  IF feedback.rating # "helpful" \/ NoComments(feedback)
  THEN ScoreResult(feedback.rating,
                   IF feedback.rating = "helpful" THEN 10 ELSE -20, <<>>, FALSE)
  ELSE
    LET test == getDefaultPatterns(feedback.comments)
        i1 == IF "broken_link" \in test THEN <<"broken_link">> ELSE <<>>
        w1 == IF "broken_link" \in test THEN 7 ELSE 10
        wrong == "wrong_info" \in test \/ "negative" \in test
        i2 == IF wrong THEN Append(i1, "wrong_info") ELSE i1
        w2 == IF wrong THEN 3 ELSE w1
        i3 == IF "outdated" \in test THEN Append(i2, "outdated") ELSE i2
        w3 == IF "outdated" \in test THEN MinWeight(w2, 7) ELSE w2
        detectedIssues == IF "technical_error" \in test
                          THEN Append(i3, "technical_error") ELSE i3
        weight == IF "technical_error" \in test THEN MinWeight(w3, 7) ELSE w3
    IN  IF "positive" \in test /\ "partial" \notin test
        THEN ScoreResult("helpful", 10, <<>>, FALSE)
        ELSE IF Len(detectedIssues) > 0
        THEN ScoreResult("helpful_with_issues", weight, detectedIssues, FALSE)
        ELSE IF "partial" \in test
        THEN ScoreResult("helpful", 10, <<>>, TRUE)
        ELSE IF CommentLength(feedback.comments) > 10
                /\ CommentLength(feedback.comments) < 100
        THEN ScoreResult("helpful", 10, <<>>, TRUE)
        ELSE ScoreResult("helpful", 10, <<>>, FALSE)

\* getCacheKey(feedback)
getCacheKey(feedback) ==
  <<IF feedback.messageId = NoValue THEN "no-id" ELSE feedback.messageId,
    feedback.comments>>

CacheHas(m, key) == \E i \in 1..Len(m) : m[i].key = key
CacheGetValue(m, key) == m[CHOOSE i \in 1..Len(m) : m[i].key = key].value

\* Map.prototype.set: a key already there keeps its place
MapSet(m, key, value) ==
  IF CacheHas(m, key)
  THEN [i \in 1..Len(m) |-> IF m[i].key = key
                            THEN [key |-> key, value |-> value] ELSE m[i]]
  ELSE Append(m, [key |-> key, value |-> value])

\* addToCache that drops the newest entry of a full cache
addToCache_EvictNewest(m, key, value) ==
  MapSet(IF Len(m) >= maxCacheSize THEN SubSeq(m, 1, Len(m) - 1) ELSE m, key, value)

\* addToCache(key, value)
addToCache(m, key, value) ==
  MapSet(IF Len(m) >= maxCacheSize THEN Tail(m) ELSE m, key, value)

\* What the chat completion may answer: nothing usable (the request raises
\* or the content does not parse), or an analysis object
LlmFails == [fails |-> TRUE]
LlmResponses ==
  {LlmFails,
   [fails |-> FALSE, hasIssues |-> FALSE, adjustedWeight |-> 10, issueTypes |-> <<>>],
   [fails |-> FALSE, hasIssues |-> TRUE, adjustedWeight |-> 7,
    issueTypes |-> <<"partial_answer">>],
   [fails |-> FALSE, hasIssues |-> TRUE, adjustedWeight |-> 0,
    issueTypes |-> <<"other">>]}

\* An analysis whose adjustedWeight is outside what the prompt asks for (1.5):
\* the content parses, and nothing in scoreFeedback checks the number
LlmOutOfRange ==
  [fails |-> FALSE, hasIssues |-> TRUE, adjustedWeight |-> 15,
   issueTypes |-> <<"other">>]
\* What the chat completion may answer to a call of the scorer from outside
ScorerResponses == LlmResponses \cup {LlmOutOfRange}

\* The result of the catch block of scoreFeedback, with the weight of a plain
\* helpful rating
ErrorResult_Penalized == [adjustedRating |-> "helpful_with_issues", weight |-> 3,
                          issues |-> <<"other">>, needsLLM |-> FALSE]

ErrorResult == ScoreResult("helpful", 10, <<>>, FALSE)

\* scoreFeedback once the chat completion has answered or failed, with the
\* cache as it is at that moment
AfterCompletion(m, feedback, llm) ==
  IF llm.fails
  THEN [result |-> ErrorResult, cache |-> m, called |-> TRUE]
  ELSE LET result == ScoreResult(
                       IF llm.hasIssues THEN "helpful_with_issues" ELSE "helpful",
                       IF llm.adjustedWeight = 0 THEN 10 ELSE llm.adjustedWeight,
                       llm.issueTypes, TRUE)
       IN  [result |-> result,
            cache |-> addToCache(m, getCacheKey(feedback), result),
            called |-> TRUE]

\* scoreFeedback(feedback): the result, the cache afterwards and whether the
\* chat completion was requested
scoreFeedback(m, feedback, llm) ==
  IF feedback.rating # "helpful" \/ NoComments(feedback)
  THEN [result |-> ScoreResult(feedback.rating,
                     IF feedback.rating = "helpful" THEN 10
                     ELSE IF feedback.rating = "not-helpful" THEN -20 ELSE 0,
                     <<>>, FALSE),
        cache |-> m, called |-> FALSE]
  ELSE IF CacheHas(m, getCacheKey(feedback))
  THEN [result |-> CacheGetValue(m, getCacheKey(feedback)),
        cache |-> m, called |-> FALSE]
  ELSE AfterCompletion(m, feedback, llm)

\* smartScore(feedback); scoreFeedback catches what the chat completion
\* raises, so the catch of smartScore is never entered
smartScore(m, feedback, llm) ==
  LET quickResult == quickScore(feedback)
  IN  IF ~quickResult.needsLLM
      THEN [result |-> quickResult, cache |-> m, called |-> FALSE]
      ELSE scoreFeedback(m, feedback, llm)

Ratings3 == {"helpful", "not-helpful", "neutral"}
MessageIds == {"m1", NoValue}
Feedbacks ==
  [messageId : MessageIds, rating : Ratings3,
   comments : Comments \cup {NoValue, ""}]

\* One call of a scoring method from outside the class
ScorerCall(method, feedback, llm) ==
  LET out == CASE method = "quickScore" ->
                    [result |-> quickScore(feedback), cache |-> memo, called |-> FALSE]
               [] method = "scoreFeedback" -> scoreFeedback(memo, feedback, llm)
               [] OTHER -> smartScore(memo, feedback, llm)
  IN  /\ memo' = out.cache
      /\ last' = [op |-> method, feedback |-> feedback, raised |-> FALSE,
                  threw |-> out.called /\ llm.fails, called |-> out.called,
                  res |-> out.result]

\* clearCache()
clearCache ==
  /\ memo' = <<>>
  /\ last' = [op |-> "clearCache", raised |-> FALSE, threw |-> FALSE]

ScorerInit ==
  /\ memo = <<>> /\ pending = NoPending /\ chat = NewChat /\ inflight = NoCalls
  /\ last = [op |-> "new", raised |-> FALSE, threw |-> FALSE]
  /\ steps = 0
  /\ db = <<>> /\ redis = EmptyRedis /\ redisEnabled = FALSE
  /\ initialized = FALSE /\ now = 0 /\ curated = {}
  /\ LearnInitial

CallBudget ==
  /\ steps < MaxCalls /\ steps' = steps + 1
  /\ UNCHANGED <<cacheVars, learnVars, pending, chat, inflight>>

\* The chat completion chosen is one the call requests
Asked(llm) == llm # LlmFails => last'.called

QuickScore ==
  \E feedback \in Feedbacks :
    CallBudget /\ ScorerCall("quickScore", feedback, LlmFails)

ScoreFeedback ==
  \E feedback \in Feedbacks, llm \in ScorerResponses :
    CallBudget /\ ScorerCall("scoreFeedback", feedback, llm) /\ Asked(llm)

SmartScore ==
  \E feedback \in Feedbacks, llm \in ScorerResponses :
    CallBudget /\ ScorerCall("smartScore", feedback, llm) /\ Asked(llm)

ClearCache == CallBudget /\ clearCache

ScorerNext ==
  \/ QuickScore
  \/ ScoreFeedback
  \/ SmartScore
  \/ ClearCache

ScorerSpec == ScorerInit /\ [][ScorerNext]_vars

(***************************************************************************)
(* Calls of the scorer that overlap.  scoreFeedback is asynchronous: it    *)
(* runs up to the await of the chat completion, other calls run meanwhile, *)
(* and it goes on from the await with the cache as it then is.  Everything *)
(* between two awaits is one step (one thread, run to completion).         *)
(***************************************************************************)
\* Calls started in the specification of overlapping calls
MaxMemoCalls == 4

MemoFeedbacks ==
  [messageId : MessageIds, rating : {"helpful"},
   comments : {"answers my question", "helpful but incomplete", "link is broken"}]

MemoMethods == {"scoreFeedback", "smartScore"}

\* The call up to its first await, or to its return if there is none
MemoBegin(p, method, feedback) ==
  LET out == IF method = "scoreFeedback"
             THEN scoreFeedback(memo, feedback, LlmFails)
             ELSE smartScore(memo, feedback, LlmFails)
  IN  /\ pending[p].pc = "idle"
      /\ steps < MaxMemoCalls /\ steps' = steps + 1
      /\ memo' = memo
      /\ IF out.called
         THEN /\ pending' = [pending EXCEPT ![p] = [pc |-> "awaiting", method |-> method,
                                                    feedback |-> feedback]]
              /\ last' = [op |-> "await", client |-> p, raised |-> FALSE,
                          threw |-> FALSE]
         ELSE /\ pending' = pending
              /\ last' = [op |-> method, client |-> p, feedback |-> feedback,
                          raised |-> FALSE, threw |-> FALSE, called |-> FALSE,
                          res |-> out.result]
      /\ UNCHANGED <<cacheVars, learnVars, chat, inflight>>

\* The chat completion answers or fails, and the call runs to its return
MemoFinish(p, llm) ==
  LET call == pending[p]
      out  == AfterCompletion(memo, call.feedback, llm)
  IN  /\ call.pc = "awaiting"
      /\ memo' = out.cache
      /\ pending' = [pending EXCEPT ![p] = IdleCall]
      /\ last' = [op |-> call.method, client |-> p, feedback |-> call.feedback,
                  raised |-> FALSE, threw |-> llm.fails, called |-> TRUE,
                  res |-> out.result, full |-> Len(memo) >= maxCacheSize]
      /\ UNCHANGED <<cacheVars, learnVars, steps, chat, inflight>>

MemoCall == \E p \in Clients, method \in MemoMethods, feedback \in MemoFeedbacks :
              MemoBegin(p, method, feedback)

MemoAnswer == \E p \in Clients, llm \in ScorerResponses : MemoFinish(p, llm)

MemoClear ==
  /\ steps < MaxMemoCalls /\ steps' = steps + 1
  /\ clearCache
  /\ UNCHANGED <<cacheVars, learnVars, pending, chat, inflight>>

MemoNext ==
  \/ MemoCall
  \/ MemoAnswer
  \/ MemoClear

MemoSpec == ScorerInit /\ [][MemoNext]_vars

(***************************************************************************)
(* Feedback learning (src/unnamed/part_001, the module feedbackLearning of *)
(* the feedback package): the tables source_scores, query_patterns and     *)
(* feedback_cache_meta, rebuilt by analyzeFeedback inside a transaction,   *)
(* incremented by recordFeedback and read by adjustRetrievalScores.        *)
(* Counts of weighted helpful feedback are in tenths while they are        *)
(* JavaScript numbers and whole once stored (the column is INTEGER).  A    *)
(* score is a fraction [num, den]; the rounding of REAL is not modelled.   *)
(* The column issue_types is not read by any method here and is left out.  *)
(***************************************************************************)
\* notHelpfulMultiplier: 2.0
notHelpfulMultiplier == 2
\* feedbackAdjustmentFactor: 0.1, as the fraction 1/10
feedbackAdjustmentFactor == [num |-> 1, den |-> 10]
\* patternMatchBoost: 1.2, as the fraction 12/10
patternMatchBoost == [num |-> 12, den |-> 10]
\* patternWeightThreshold: 0.5, in tenths
patternWeightThreshold == 5

Rat(n, d) == [num |-> n, den |-> d]
RatEq(a, b) == a.num * b.den = b.num * a.den
RatLt(a, b) == a.num * b.den < b.num * a.den
RatMul(a, b) == Rat(a.num * b.num, a.den * b.den)
RatAdd(a, b) == Rat(a.num * b.den + b.num * a.den, a.den * b.den)
Max(a, b) == IF a > b THEN a ELSE b
\* Division of integers in SQL truncates toward zero
SqlDiv(n, d) == IF n >= 0 THEN n \div d ELSE -((-n) \div d)
\* Math.round of a count held in tenths
MathRound(tenths) == (tenths + 5) \div 10

\* Sources as feedback carries them, and the key of each
SrcA == [sourceFile |-> "a.md", url |-> NoValue, id |-> NoValue]
SrcB == [sourceFile |-> NoValue, url |-> "https://b", id |-> NoValue]
SrcNone == [sourceFile |-> NoValue, url |-> NoValue, id |-> NoValue]
SourceKeys == {"a.md", "https://b"}

\* source.sourceFile || source.url || source.id
FeedbackSourceKey(source) ==
  IF source.sourceFile # NoValue THEN source.sourceFile
  ELSE IF source.url # NoValue THEN source.url
  ELSE source.id

\* Queries are sequences of words separated by blanks
Q_Reset  == <<"Reset", "my", "password?">>
Q_Reset2 == <<"password", "reset">>
Q_Vpn    == <<"vpn", "is", "down">>
Queries  == {Q_Reset, Q_Reset2, Q_Vpn}

\* toLowerCase and the removal of [^\w\s], on one word
CleanWord(w) ==
  CASE w = "Reset" -> "reset"
    [] w = "password?" -> "password"
    [] OTHER -> w

\* word.length
WordLength(w) ==
  CASE w = "reset" -> 5
    [] w = "password" -> 8
    [] w = "down" -> 4
    [] w = "vpn" -> 3
    [] w = "my" -> 2
    [] w = "is" -> 2
    [] OTHER -> 0

\* The place of a word in the order Array.prototype.sort uses
WordRank(w) ==
  CASE w = "down" -> 1
    [] w = "is" -> 2
    [] w = "my" -> 3
    [] w = "password" -> 4
    [] w = "reset" -> 5
    [] OTHER -> 6

RECURSIVE FilterWords(_)
FilterWords(ws) ==
  IF ws = <<>> THEN <<>>
  ELSE IF WordLength(Head(ws)) > 2
       THEN <<Head(ws)>> \o FilterWords(Tail(ws))
       ELSE FilterWords(Tail(ws))

RECURSIVE InsertSorted(_, _)
InsertSorted(w, ws) ==
  IF ws = <<>> THEN <<w>>
  ELSE IF WordRank(w) < WordRank(Head(ws)) THEN <<w>> \o ws
  ELSE <<Head(ws)>> \o InsertSorted(w, Tail(ws))

RECURSIVE SortWords(_)
SortWords(ws) ==
  IF ws = <<>> THEN <<>> ELSE InsertSorted(Head(ws), SortWords(Tail(ws)))

\* normalizeQuery(query): the sorted words longer than two characters
normalizeQuery(query) ==
  SortWords(FilterWords([i \in 1..Len(query) |-> CleanWord(query[i])]))

\* The feedback batches handed to analyzeFeedback.  At most one entry of a
\* batch is escalated to the chat completion.
Fb(messageId, rating, comments, question, sources) ==
  [messageId |-> messageId, rating |-> rating, comments |-> comments,
   question |-> question, sources |-> sources]
Batch_Helpful == <<Fb("m1", "helpful", NoValue, Q_Reset, <<SrcA>>)>>
Batch_Mixed ==
  <<Fb("m2", "not-helpful", NoValue, Q_Vpn, <<SrcB>>),
    Fb("m3", "helpful", "link is broken", Q_Reset2, <<SrcA, SrcNone>>)>>
Batch_Escalated ==
  <<Fb("m4", "helpful", "answers my question", Q_Vpn, <<SrcB>>),
    Fb("m5", "neutral", NoValue, Q_Vpn, <<SrcB>>),
    Fb("m6", NoValue, NoValue, Q_Vpn, <<SrcA>>)>>
Batches == {Batch_Helpful, Batch_Mixed, Batch_Escalated}
\* The batches each client hands in
BatchesOf(p) == IF p = 1 THEN Batches ELSE {Batch_Mixed}

\* The in-memory maps of analyzeFeedback keep their keys in insertion order
KeyIndex(map, key) ==
  IF \E i \in 1..Len(map) : map[i].key = key
  THEN CHOOSE i \in 1..Len(map) : map[i].key = key
  ELSE 0

NewStats(key) ==
  [key |-> key, helpful |-> 0, notHelpful |-> 0, helpfulWithIssues |-> 0,
   total |-> 0]

\* The update of sourceScores[sourceKey] for one source of one feedback
CountSource(map, key, rating, scoreResult) ==
  LET m0 == IF KeyIndex(map, key) = 0 THEN Append(map, NewStats(key)) ELSE map
      i  == KeyIndex(m0, key)
      withIssues == rating = "helpful"
                    /\ scoreResult.adjustedRating = "helpful_with_issues"
  IN  [m0 EXCEPT ![i] =
         [@ EXCEPT !.total = @ + 1,
                   !.helpfulWithIssues = IF withIssues THEN @ + 1 ELSE @,
                   !.helpful = IF withIssues THEN @ + scoreResult.weight
                               ELSE IF rating = "helpful" THEN @ + 10 ELSE @,
                   !.notHelpful = IF rating = "not-helpful" THEN @ + 1 ELSE @]]

RECURSIVE CountSources(_, _, _, _)
CountSources(map, sources, rating, scoreResult) ==
  IF sources = <<>> THEN map
  ELSE LET key == FeedbackSourceKey(Head(sources))
       IN  CountSources(IF key = NoValue THEN map
                        ELSE CountSource(map, key, rating, scoreResult),
                        Tail(sources), rating, scoreResult)

RECURSIVE PushSources(_, _)
PushSources(list, sources) ==
  IF sources = <<>> THEN list
  ELSE LET key == FeedbackSourceKey(Head(sources))
       IN  PushSources(IF key # NoValue /\ \A i \in 1..Len(list) : list[i] # key
                       THEN Append(list, key) ELSE list,
                       Tail(sources))

\* The update of queryPatterns for one feedback
CountPattern(map, feedback, scoreResult) ==
  IF /\ feedback.rating = "helpful"
     /\ scoreResult.weight > patternWeightThreshold
     /\ feedback.question # NoValue
  THEN LET key == normalizeQuery(feedback.question)
           m0  == IF KeyIndex(map, key) = 0
                  THEN Append(map, [key |-> key, count |-> 0, sources |-> <<>>])
                  ELSE map
           i   == KeyIndex(m0, key)
       IN  [m0 EXCEPT ![i] = [@ EXCEPT !.count = @ + 1,
                                       !.sources = PushSources(@, feedback.sources)]]
  ELSE map

\* The loop of analyzeFeedback over feedbackData, from the state acc
RECURSIVE ProcessFeedback(_, _, _)
ProcessFeedback(feedbackData, llm, acc) ==
  IF feedbackData = <<>> THEN acc
  ELSE LET feedback == Head(feedbackData)
       IN  IF feedback.sources = NoValue \/ feedback.rating = NoValue
           THEN ProcessFeedback(Tail(feedbackData), llm, acc)
           ELSE LET scored == smartScore(acc.cache, feedback, llm)
                    scoreResult == scored.result
                IN  ProcessFeedback(Tail(feedbackData), llm,
                      [cache |-> scored.cache,
                       llmCallCount |-> acc.llmCallCount
                                        + (IF scoreResult.needsLLM THEN 1 ELSE 0),
                       sourceScores |-> CountSources(acc.sourceScores,
                                          feedback.sources, feedback.rating,
                                          scoreResult),
                       queryPatterns |-> CountPattern(acc.queryPatterns,
                                           feedback, scoreResult)])

NoAnalysis(m) ==
  [cache |-> m, llmCallCount |-> 0, sourceScores |-> <<>>, queryPatterns |-> <<>>]

\* score = (helpful - notHelpful * multiplier) / Math.max(total, 1)
StatsScore(stats) ==
  Rat(stats.helpful - stats.notHelpful * notHelpfulMultiplier * 10,
      10 * Max(stats.total, 1))

(***************************************************************************)
(* analyzeFeedback(feedbackData).  Each statement the call sends is one    *)
(* step.  The store runs the transaction at READ COMMITTED: a statement    *)
(* sees the rows committed when it starts, waits for the transaction that  *)
(* holds a row it has to change, and INSERT ... ON CONFLICT DO UPDATE      *)
(* updates the committed row of its key even when that row was committed   *)
(* after the transaction began.  A row keeps its identity (rid) through    *)
(* updates and gets a new one when it is inserted.                         *)
(***************************************************************************)
\* analyzeFeedback calls one client may start
MaxRuns == 2
\* Cap of the column total under recordFeedback
MaxTotal == 2
\* adjustRetrievalScores calls explored
MaxAdjust == 1

Put(f, k, v) == [x \in DOMAIN f \cup {k} |-> IF x = k THEN v ELSE f[x]]
Drop(f, K) == [x \in DOMAIN f \ K |-> f[x]]
Merge(f, g) == [x \in DOMAIN f \cup DOMAIN g |-> IF x \in DOMAIN g THEN g[x] ELSE f[x]]
Versions(table) == {<<k, table[k].rid>> : k \in DOMAIN table}
Other(p) == 3 - p
InFlight(t) == t.pc \notin {"idle", "done", "failed"}
\* The rows a transaction holds locked: those it deleted or wrote
HeldRows(del, w) == del \cup Versions(w)

\* const client = await this.pool.connect(); await client.query('BEGIN')
AnalyzeBegin(p, feedbackData) ==
  /\ ~InFlight(tx[p])
  /\ tx[p].run < MaxRuns
  /\ tx' = [q \in Clients |->
              IF q = p
              THEN [IdleTx EXCEPT !.pc = "deleteScores",
                                  !.run = tx[p].run + 1,
                                  !.feedbackData = feedbackData,
                                  !.overlapped = InFlight(tx[Other(p)])]
              ELSE IF InFlight(tx[q]) THEN [tx[q] EXCEPT !.overlapped = TRUE]
              ELSE tx[q]]
  /\ UNCHANGED <<source_scores, query_patterns, feedback_cache_meta, adj,
                 memo, last>>

\* A DELETE that removes nothing
DeleteTargets_None(table, del, snap, waiting) == {}

\* The rows a DELETE without WHERE removes: those of its snapshot that are
\* still there once no other transaction holds any of them
DeleteTargets(table, del, snap, waiting) ==
  IF waiting THEN snap \cap Versions(table) ELSE Versions(table) \ del

\* DELETE FROM source_scores
AnalyzeDeleteScores(p) ==
  LET t == tx[p]
      q == tx[Other(p)]
      waiting == t.pc = "deleteScoresWait"
      targets == DeleteTargets(source_scores, t.delS, t.snap, waiting)
      blocked == targets \cap HeldRows(q.delS, q.wS) # {}
  IN  /\ t.pc \in {"deleteScores", "deleteScoresWait"}
      /\ ~(waiting /\ blocked)
      /\ tx' = [tx EXCEPT ![p] =
                  IF blocked
                  THEN [t EXCEPT !.pc = "deleteScoresWait", !.snap = targets]
                  ELSE [t EXCEPT !.pc = "deletePatterns", !.snap = {},
                                 !.delS = @ \cup targets]]
      /\ UNCHANGED <<source_scores, query_patterns, feedback_cache_meta, adj,
                     memo, last>>

\* DELETE FROM query_patterns
AnalyzeDeletePatterns(p) ==
  LET t == tx[p]
      q == tx[Other(p)]
      waiting == t.pc = "deletePatternsWait"
      targets == DeleteTargets(query_patterns, t.delP, t.snap, waiting)
      blocked == targets \cap HeldRows(q.delP, q.wP) # {}
  IN  /\ t.pc \in {"deletePatterns", "deletePatternsWait"}
      /\ ~(waiting /\ blocked)
      /\ tx' = [tx EXCEPT ![p] =
                  IF blocked
                  THEN [t EXCEPT !.pc = "deletePatternsWait", !.snap = targets]
                  ELSE [t EXCEPT !.pc = "score", !.snap = {},
                                 !.delP = @ \cup targets]]
      /\ UNCHANGED <<source_scores, query_patterns, feedback_cache_meta, adj,
                     memo, last>>

\* Where the call goes on once the entries i.. of a map are persisted
AfterScores(t, i) ==
  IF i <= Len(t.sourceScores) THEN [pc |-> "insertScores", i |-> i]
  ELSE IF Len(t.queryPatterns) > 0 THEN [pc |-> "insertPatterns", i |-> 1]
  ELSE [pc |-> "updateMeta", i |-> 1]
AfterPatterns(t, i) ==
  IF i <= Len(t.queryPatterns) THEN [pc |-> "insertPatterns", i |-> i]
  ELSE [pc |-> "updateMeta", i |-> 1]

\* for (const feedback of feedbackData) { ... }
AnalyzeScoreWith(p, answers) ==
  \E llm \in answers :
    LET t   == tx[p]
        acc == ProcessFeedback(t.feedbackData, llm, NoAnalysis(memo))
        t1  == [t EXCEPT !.sourceScores = acc.sourceScores,
                         !.queryPatterns = acc.queryPatterns,
                         !.llmCallCount = acc.llmCallCount]
    IN  /\ t.pc = "score"
        /\ memo' = acc.cache
        /\ tx' = [tx EXCEPT ![p] = [t1 EXCEPT !.pc = AfterScores(t1, 1).pc,
                                              !.i = AfterScores(t1, 1).i]]
        /\ UNCHANGED <<source_scores, query_patterns, feedback_cache_meta, adj,
                       last>>

AnalyzeScore(p) == AnalyzeScoreWith(p, LlmResponses)

\* An INSERT ... ON CONFLICT (key) waits while another transaction has
\* written the key or deleted its committed row
InsertBlocked(table, key, del, w) ==
  \/ key \in DOMAIN w
  \/ key \in DOMAIN table /\ <<key, table[key].rid>> \in del

\* The row INSERT ... ON CONFLICT DO UPDATE leaves under a key: the row in
\* conflict keeps its identity
Upserted(table, key, del, w, values, rid) ==
  values @@ [rid |-> IF key \in DOMAIN w THEN w[key].rid
                     ELSE IF key \in DOMAIN table /\ <<key, table[key].rid>> \notin del
                     THEN table[key].rid
                     ELSE rid]

\* The values analyzeFeedback stores for one source
ScoreValues(stats) ==
  [helpful |-> MathRound(stats.helpful), not_helpful |-> stats.notHelpful,
   helpful_with_issues |-> stats.helpfulWithIssues, total |-> stats.total,
   score |-> StatsScore(stats)]

\* INSERT INTO source_scores ... ON CONFLICT (source_key) DO UPDATE
AnalyzeInsertScore(p) ==
  LET t == tx[p]
      q == tx[Other(p)]
      stats == t.sourceScores[t.i]
      row == Upserted(source_scores, stats.key, t.delS, t.wS,
                      ScoreValues(stats), <<p, t.run>>)
  IN  /\ t.pc = "insertScores"
      /\ ~InsertBlocked(source_scores, stats.key, q.delS, q.wS)
      /\ tx' = [tx EXCEPT ![p] = [t EXCEPT !.wS = Put(@, stats.key, row),
                                           !.pc = AfterScores(t, t.i + 1).pc,
                                           !.i = AfterScores(t, t.i + 1).i]]
      /\ UNCHANGED <<source_scores, query_patterns, feedback_cache_meta, adj,
                     memo, last>>

\* INSERT INTO query_patterns ... ON CONFLICT (pattern_key) DO UPDATE
AnalyzeInsertPattern(p) ==
  LET t == tx[p]
      q == tx[Other(p)]
      data == t.queryPatterns[t.i]
      row == Upserted(query_patterns, data.key, t.delP, t.wP,
                      [count |-> data.count, sources |-> data.sources],
                      <<p, t.run>>)
  IN  /\ t.pc = "insertPatterns"
      /\ ~InsertBlocked(query_patterns, data.key, q.delP, q.wP)
      /\ tx' = [tx EXCEPT ![p] = [t EXCEPT !.wP = Put(@, data.key, row),
                                           !.pc = AfterPatterns(t, t.i + 1).pc,
                                           !.i = AfterPatterns(t, t.i + 1).i]]
      /\ UNCHANGED <<source_scores, query_patterns, feedback_cache_meta, adj,
                     memo, last>>

\* What analyzeFeedback reports and writes to feedback_cache_meta
AnalysisSummary(t) ==
  [sources_analyzed |-> Len(t.sourceScores),
   patterns_identified |-> Len(t.queryPatterns),
   total_feedback |-> Len(t.feedbackData),
   llm_analyzed |-> t.llmCallCount]

\* UPDATE feedback_cache_meta SET ... WHERE id = 1
AnalyzeUpdateMeta(p) ==
  LET t == tx[p]
      q == tx[Other(p)]
  IN  /\ t.pc = "updateMeta"
      /\ q.wMeta = <<>>
      /\ tx' = [tx EXCEPT ![p] = [t EXCEPT !.wMeta = <<AnalysisSummary(t)>>,
                                           !.pc = "commit"]]
      /\ UNCHANGED <<source_scores, query_patterns, feedback_cache_meta, adj,
                     memo, last>>

\* A committed table once a transaction's deletes and writes are applied
Committed(table, del, w) ==
  Merge(Drop(table, {k \in DOMAIN table : <<k, table[k].rid>> \in del}), w)

\* A rollback that lets the deletes of the transaction through
RolledBack_DeletesKept(table, del, w) ==
  Drop(table, {k \in DOMAIN table : <<k, table[k].rid>> \in del})

\* A committed table once a transaction is rolled back
RolledBack(table, del, w) == table

Finished(t, pc) ==
  [t EXCEPT !.pc = pc, !.snap = {}, !.delS = {}, !.wS = <<>>, !.delP = {},
            !.wP = <<>>, !.wMeta = <<>>]

\* COMMIT, and the result returned
AnalyzeCommit(p) ==
  LET t == tx[p]
  IN  /\ t.pc = "commit"
      /\ source_scores' = Committed(source_scores, t.delS, t.wS)
      /\ query_patterns' = Committed(query_patterns, t.delP, t.wP)
      /\ feedback_cache_meta' = IF t.wMeta = <<>> THEN feedback_cache_meta
                                ELSE t.wMeta[1]
      /\ tx' = [tx EXCEPT ![p] = Finished(t, "done")]
      /\ last' = [op |-> "analyzeFeedback", client |-> p, raised |-> FALSE,
                  threw |-> FALSE, feedbackData |-> t.feedbackData,
                  res |-> AnalysisSummary(t)]
      /\ adj' = IF adj.pc = "patterns"
                THEN [adj EXCEPT !.stores = @ \cup {<<source_scores', query_patterns'>>}]
                ELSE adj
      /\ UNCHANGED memo

\* A statement of the transaction fails (the store reports an error, ends a
\* deadlock, or the connection is lost): catch, ROLLBACK, throw
AnalyzeFail(p) ==
  LET t == tx[p]
  IN  /\ InFlight(t)
      /\ source_scores' = RolledBack(source_scores, t.delS, t.wS)
      /\ query_patterns' = RolledBack(query_patterns, t.delP, t.wP)
      /\ feedback_cache_meta' = feedback_cache_meta
      /\ tx' = [tx EXCEPT ![p] = Finished(t, "failed")]
      /\ last' = [op |-> "analyzeFeedback", client |-> p, raised |-> TRUE,
                  threw |-> TRUE]
      /\ UNCHANGED <<adj, memo>>

(***************************************************************************)
(* recordFeedback(sourceKey, rating, issues): one statement, committed on  *)
(* its own.  Its parameters take the type of the INTEGER columns they are  *)
(* inserted into, so the store rejects the 0.7 sent when there are issues, *)
(* and the score of the DO UPDATE branch is a quotient of integers.        *)
(***************************************************************************)
IssueLists == {<<>>, <<"broken_link">>}

\* The identity of a row recordFeedback inserts: one that no statement in
\* progress has seen under that key
FreshRid(key) ==
  LET seen == UNION {tx[q].snap \cup tx[q].delS : q \in Clients}
  IN  <<0, CHOOSE n \in 0..Cardinality(Clients) :
             /\ <<key, <<0, n>>>> \notin seen
             /\ \A m \in 0..(n - 1) : <<key, <<0, m>>>> \in seen>>

\* A row inserted by recordFeedback: the column score keeps its DEFAULT 0
FirstFeedbackRow(helpful, notHelpful, rid) ==
  [helpful |-> helpful, not_helpful |-> notHelpful, helpful_with_issues |-> 0,
   total |-> 1, score |-> Rat(0, 1), rid |-> rid]

\* The DO UPDATE branch of recordFeedback
NextFeedbackRow(row, helpful, notHelpful) ==
  [row EXCEPT !.helpful = @ + helpful,
              !.not_helpful = @ + notHelpful,
              !.total = @ + 1,
              !.score = Rat(SqlDiv(row.helpful + helpful
                                   - (row.not_helpful + notHelpful) * notHelpfulMultiplier,
                                   Max(row.total + 1, 1)), 1)]

\* The row of sourceKey after a recordFeedback without issues
RecordedRow(table, sourceKey, rating, rid) ==
  LET isHelpful  == rating = "helpful"
      helpful    == IF isHelpful THEN 1 ELSE 0
      notHelpful == IF isHelpful THEN 0 ELSE 1
  IN  IF sourceKey \in DOMAIN table
      THEN NextFeedbackRow(table[sourceKey], helpful, notHelpful)
      ELSE FirstFeedbackRow(helpful, notHelpful, rid)

RecordFeedback(sourceKey, rating, issues) ==
  LET hasIssues == Len(issues) > 0
      call == [op |-> "recordFeedback", sourceKey |-> sourceKey,
               rating |-> rating, issues |-> issues]
  IN  /\ \A q \in Clients :
           ~InsertBlocked(source_scores, sourceKey, tx[q].delS, tx[q].wS)
      /\ IF hasIssues
         THEN /\ last' = call @@ [raised |-> TRUE, threw |-> TRUE]
              /\ UNCHANGED <<source_scores, tx>>
         ELSE /\ last' = call @@ [raised |-> FALSE, threw |-> FALSE, res |-> TRUE]
              /\ sourceKey \in DOMAIN source_scores
                   => source_scores[sourceKey].total < MaxTotal
              /\ source_scores' =
                   Put(source_scores, sourceKey,
                       RecordedRow(source_scores, sourceKey, rating,
                                   FreshRid(sourceKey)))
              /\ tx' = [q \in Clients |->
                          IF InFlight(tx[q]) THEN [tx[q] EXCEPT !.overlapped = TRUE]
                          ELSE tx[q]]
      /\ UNCHANGED <<query_patterns, feedback_cache_meta, adj, memo>>

(***************************************************************************)
(* adjustRetrievalScores(results, query): two SELECTs, each on its own,    *)
(* then the sort.  Raw scores are whole numbers.                           *)
(***************************************************************************)
Match(id, score, sourceFile, source, url) ==
  [id |-> id, score |-> score,
   metadata |-> [sourceFile |-> sourceFile, source |-> source, url |-> url]]
MatchA == Match(1, 80, "a.md", NoValue, NoValue)
MatchB == Match(2, 90, NoValue, NoValue, "https://b")
MatchC == Match(3, 85, NoValue, "c.md", "https://b")
MatchNone == Match(4, 60, NoValue, NoValue, NoValue)
ResultSets == {<<MatchA, MatchB>>, <<MatchC, MatchNone, MatchA>>}
AdjustQueries == {Q_Reset2, Q_Vpn}

\* result.metadata?.sourceFile || result.metadata?.source || result.metadata?.url
MatchSourceKey(result) ==
  IF result.metadata.sourceFile # NoValue THEN result.metadata.sourceFile
  ELSE IF result.metadata.source # NoValue THEN result.metadata.source
  ELSE result.metadata.url

\* results.map(...): the adjustment by the score of the source
AdjustBySource(result, scores) ==
  LET sourceKey == MatchSourceKey(result)
  IN  IF sourceKey # NoValue /\ sourceKey \in DOMAIN scores
      THEN LET adjustment == RatMul(scores[sourceKey].score, feedbackAdjustmentFactor)
           IN  result @@ [adjustedScore |-> RatMul(Rat(result.score, 1),
                                                   RatAdd(Rat(1, 1), adjustment)),
                          adjusted |-> TRUE, patternMatch |-> FALSE]
      ELSE result @@ [adjustedScore |-> Rat(result.score, 1),
                      adjusted |-> FALSE, patternMatch |-> FALSE]

\* A boost given to every match
BoostByPattern_All(result, patternSources) ==
  [result EXCEPT !.adjustedScore = RatMul(@, patternMatchBoost),
                 !.patternMatch = TRUE]

\* adjustedResults.forEach(...): the boost of a match of the pattern
BoostByPattern(result, patternSources) ==
  LET sourceKey == MatchSourceKey(result)
  IN  IF sourceKey # NoValue
         /\ \E i \in 1..Len(patternSources) : patternSources[i] = sourceKey
      THEN [result EXCEPT !.adjustedScore = RatMul(@, patternMatchBoost),
                          !.patternMatch = TRUE]
      ELSE result

\* sort((a, b) => b.adjustedScore - a.adjustedScore): descending and stable
RECURSIVE InsertByScore(_, _)
InsertByScore(r, rs) ==
  IF rs = <<>> THEN <<r>>
  ELSE IF RatLt(Head(rs).adjustedScore, r.adjustedScore) THEN <<r>> \o rs
  ELSE <<Head(rs)>> \o InsertByScore(r, Tail(rs))

RECURSIVE SortByScore(_)
SortByScore(rs) ==
  IF rs = <<>> THEN <<>>
  ELSE InsertByScore(rs[Len(rs)], SortByScore(SubSeq(rs, 1, Len(rs) - 1)))

\* SELECT source_key, score FROM source_scores, and the map over results
AdjustBegin(results, query) ==
  /\ adj.pc = "idle"
  /\ adj.calls < MaxAdjust
  /\ adj' = [pc |-> "patterns", calls |-> adj.calls + 1,
             results |-> results, query |-> query,
             adjustedResults |->
               [i \in 1..Len(results) |-> AdjustBySource(results[i], source_scores)],
             stores |-> {<<source_scores, query_patterns>>}]
  /\ UNCHANGED <<source_scores, query_patterns, feedback_cache_meta, tx,
                 memo, last>>

\* SELECT sources FROM query_patterns WHERE pattern_key = $1, the boost and
\* the sort
AdjustFinish ==
  LET normalizedQuery == normalizeQuery(adj.query)
      boosted ==
        IF normalizedQuery \in DOMAIN query_patterns
        THEN [i \in 1..Len(adj.adjustedResults) |->
                BoostByPattern(adj.adjustedResults[i],
                               query_patterns[normalizedQuery].sources)]
        ELSE adj.adjustedResults
  IN  /\ adj.pc = "patterns"
      /\ adj' = [pc |-> "idle", calls |-> adj.calls]
      /\ last' = [op |-> "adjustRetrievalScores", results |-> adj.results,
                  query |-> adj.query, raised |-> FALSE, threw |-> FALSE,
                  res |-> SortByScore(boosted)]
      /\ UNCHANGED <<source_scores, query_patterns, feedback_cache_meta, tx,
                     memo>>

(***************************************************************************)
(* The specifications of the feedback learning.  RebuildSpec: two clients  *)
(* that call analyzeFeedback against the same store.  LearnSpec: one       *)
(* client that calls analyzeFeedback, and calls of recordFeedback.         *)
(* AdjustSpec: one client that calls analyzeFeedback, and calls of         *)
(* adjustRetrievalScores.                                                  *)
(***************************************************************************)
LearnInit ==
  /\ LearnInitial
  /\ memo = <<>> /\ pending = NoPending /\ chat = NewChat /\ inflight = NoCalls
  /\ last = [op |-> "new", raised |-> FALSE, threw |-> FALSE]
  /\ steps = 0
  /\ db = <<>> /\ redis = EmptyRedis /\ redisEnabled = FALSE
  /\ initialized = FALSE /\ now = 0 /\ curated = {}

Rest == UNCHANGED <<cacheVars, steps, pending, chat, inflight>>

Begin == \E p \in Clients : \E feedbackData \in BatchesOf(p) :
           AnalyzeBegin(p, feedbackData) /\ Rest
DeleteScores == \E p \in Clients : AnalyzeDeleteScores(p) /\ Rest
DeletePatterns == \E p \in Clients : AnalyzeDeletePatterns(p) /\ Rest
Score == \E p \in Clients : AnalyzeScore(p) /\ Rest
InsertScore == \E p \in Clients : AnalyzeInsertScore(p) /\ Rest
InsertPattern == \E p \in Clients : AnalyzeInsertPattern(p) /\ Rest
UpdateMeta == \E p \in Clients : AnalyzeUpdateMeta(p) /\ Rest
Commit == \E p \in Clients : AnalyzeCommit(p) /\ Rest
Fail == \E p \in Clients : AnalyzeFail(p) /\ Rest

RebuildNext ==
  \/ Begin
  \/ DeleteScores
  \/ DeletePatterns
  \/ Score
  \/ InsertScore
  \/ InsertPattern
  \/ UpdateMeta
  \/ Commit
  \/ Fail

RebuildSpec == LearnInit /\ [][RebuildNext]_vars

\* One step of an analyzeFeedback call of the first client
Analyze ==
  /\ \/ \E feedbackData \in BatchesOf(1) : AnalyzeBegin(1, feedbackData)
     \/ AnalyzeDeleteScores(1)
     \/ AnalyzeDeletePatterns(1)
     \/ AnalyzeScore(1)
     \/ AnalyzeInsertScore(1)
     \/ AnalyzeInsertPattern(1)
     \/ AnalyzeUpdateMeta(1)
     \/ AnalyzeCommit(1)
     \/ AnalyzeFail(1)
  /\ Rest

Record == \E sourceKey \in SourceKeys, rating \in Ratings3, issues \in IssueLists :
            RecordFeedback(sourceKey, rating, issues) /\ Rest

LearnNext ==
  \/ Analyze
  \/ Record

LearnSpec == LearnInit /\ [][LearnNext]_vars

AdjustStart == \E results \in ResultSets, query \in AdjustQueries :
                 AdjustBegin(results, query) /\ Rest
AdjustEnd == AdjustFinish /\ Rest

AdjustNext ==
  \/ Analyze
  \/ AdjustStart
  \/ AdjustEnd

AdjustSpec == LearnInit /\ [][AdjustNext]_vars

(***************************************************************************)
(* Hybrid retrieval (src/src/retrieval/hybridSearch.js).  Raw scores are   *)
(* whole numbers of hundredths (0.91 is 91), adjusted scores are           *)
(* fractions of them.  The embedding request, the vector index, the        *)
(* feedback learning and the chat completion are collaborators: what they  *)
(* answer is an input of the call.                                         *)
(***************************************************************************)
\* RERANK_SCORE_THRESHOLD (0.05 by default), in hundredths
RERANK_SCORE_THRESHOLD == 5
\* The spread under which two scores count as similar (0.02), in hundredths
SimilarScores == 2
\* MIN_SIMILARITY (0.75 by default), in hundredths
MIN_SIMILARITY == 75

\* The pieces of rankingText between commas, and what
\* parseInt(s.trim()) makes of each
RankingTokens == {"0", "1", " 2", "7", "x", "2nd"}
NaN == [isNaN |-> TRUE]
Number(n) == [isNaN |-> FALSE, n |-> n]
parseInt(s) ==
  CASE s = "0"   -> Number(0)
    [] s = "1"   -> Number(1)
    [] s = " 2"  -> Number(2)
    [] s = "7"   -> Number(7)
    [] s = "2nd" -> Number(2)
    [] OTHER     -> NaN

\* What the chat completion may answer to the ranking prompt: the request
\* raises or the message has no content, or a text of one to three pieces
CompletionFails == [fails |-> TRUE]
MaxRanking == 3
Completions ==
  {CompletionFails}
    \cup {[fails |-> FALSE, rankingText |-> t] :
            t \in UNION {[1..n -> RankingTokens] : n \in 1..MaxRanking}}

\* rankingText.split(',').map(s => parseInt(s.trim()))
\*            .filter(n => !isNaN(n) && n >= 0 && n < matches.length),
\* as positions of the model's sequences (index i is position i + 1)
ParsedIndices(rankingText, length) ==
  LET parsed == [k \in 1..Len(rankingText) |-> parseInt(rankingText[k])]
      valid  == SelectSeq(parsed, LAMBDA x : ~x.isNaN /\ x.n >= 0 /\ x.n < length)
  IN  [k \in 1..Len(valid) |-> valid[k].n + 1]

\* matches.map((_, i) => i).filter(i => !indices.includes(i))
MissingIndices(indices, length) ==
  SelectSeq([i \in 1..length |-> i],
            LAMBDA i : \A k \in 1..Len(indices) : indices[k] # i)

\* A catch block that returns nothing
RerankFallback_Empty(matches) == <<>>

\* catch (error) { ...; return matches; }
RerankFallback(matches) == matches

\* llmRerank(matches, query): the list returned and whether the chat
\* completion was requested
llmRerank(matches, completion) ==
  IF Len(matches) <= 2
  THEN [result |-> matches, called |-> FALSE]
  ELSE IF completion.fails
  THEN [result |-> RerankFallback(matches), called |-> TRUE]
  ELSE LET indices == ParsedIndices(completion.rankingText, Len(matches))
           completeIndices == indices \o MissingIndices(indices, Len(matches))
       IN  [result |-> [k \in 1..Len(completeIndices) |-> matches[completeIndices[k]]],
            called |-> TRUE]

\* extractDateFromSource(source).getTime(), or 0 without a date, counted in
\* years: the names below match the year-only pattern, for which the date
\* is new Date(year, 0, 1)
DateValue(source) ==
  CASE source = "policy-2022.pdf" -> 2022
    [] source = "policy-2023.pdf" -> 2023
    [] source = "policy-2024.pdf" -> 2024
    [] OTHER                      -> 0

\* match.metadata?.sourceFile || match.metadata?.source || ''
DateSource(match) ==
  IF match.metadata.sourceFile # NoValue THEN match.metadata.sourceFile
  ELSE IF match.metadata.source # NoValue THEN match.metadata.source
  ELSE ""

\* matches.map(match => ({...match, extractedDate, dateValue}))
WithDate(match) == match @@ [dateValue |-> DateValue(DateSource(match))]

\* a.adjustedScore || a.score
EffectiveScore(m) ==
  IF "adjustedScore" \in DOMAIN m /\ m.adjustedScore.num # 0
  THEN m.adjustedScore ELSE Rat(m.score, 1)

RatSub(a, b) == RatAdd(a, Rat(-b.num, b.den))
RatAbs(a) == Rat(IF a.num < 0 THEN -a.num ELSE a.num, a.den)

\* A comparator that puts the older of two similar matches first
CompareMatches_OldestFirst(a, b) ==
  LET scoreA == EffectiveScore(a)
      scoreB == EffectiveScore(b)
  IN  IF RatLt(RatAbs(RatSub(scoreA, scoreB)), Rat(SimilarScores, 1))
      THEN Rat(a.dateValue - b.dateValue, 1)
      ELSE RatSub(scoreB, scoreA)

\* The comparator of adjustedMatches.sort: negative when a goes first
CompareMatches(a, b) ==
  LET scoreA == EffectiveScore(a)
      scoreB == EffectiveScore(b)
  IN  IF RatLt(RatAbs(RatSub(scoreA, scoreB)), Rat(SimilarScores, 1))
      THEN Rat(b.dateValue - a.dateValue, 1)
      ELSE RatSub(scoreB, scoreA)

Negative(r) == r.num < 0

\* Array.prototype.sort with a comparator, as the engine of Node runs it on
\* an array shorter than 64: the leading run is found (a strictly
\* descending one is reversed), and each further element is put in place
\* by a binary search among those before it.  The comparator above is not
\* transitive, so the order depends on these steps.
RECURSIVE RunLength(_, _, _)
RunLength(a, descending, idx) ==
  IF idx > Len(a) THEN Len(a)
  ELSE IF descending = Negative(CompareMatches(a[idx], a[idx - 1]))
  THEN RunLength(a, descending, idx + 1)
  ELSE idx - 1

Reverse(a) == [k \in 1..Len(a) |-> a[Len(a) + 1 - k]]

\* CountAndMakeRun
MakeRun(a) ==
  IF Len(a) < 2 THEN [array |-> a, run |-> Len(a)]
  ELSE LET descending == Negative(CompareMatches(a[2], a[1]))
           run == RunLength(a, descending, 3)
       IN  [array |-> IF descending
                      THEN Reverse(SubSeq(a, 1, run)) \o SubSeq(a, run + 1, Len(a))
                      ELSE a,
            run |-> run]

\* The binary search of BinaryInsertionSort: where the pivot goes among
\* a[left..right-1] (positions from 1)
RECURSIVE SearchPlace(_, _, _, _)
SearchPlace(a, pivot, left, right) ==
  IF left >= right THEN left
  ELSE LET mid == left + ((right - left) \div 2)
       IN  IF Negative(CompareMatches(pivot, a[mid]))
           THEN SearchPlace(a, pivot, left, mid)
           ELSE SearchPlace(a, pivot, mid + 1, right)

\* BinaryInsertionSort from position start on
RECURSIVE InsertFrom(_, _)
InsertFrom(a, start) ==
  IF start > Len(a) THEN a
  ELSE LET pivot == a[start]
           place == SearchPlace(a, pivot, 1, start)
       IN  InsertFrom(SubSeq(a, 1, place - 1) \o <<pivot>>
                        \o SubSeq(a, place, start - 1)
                        \o SubSeq(a, start + 1, Len(a)),
                      start + 1)

\* adjustedMatches.sort((a, b) => ...)
SortMatches(a) == InsertFrom(MakeRun(a).array, MakeRun(a).run + 1)

\* The questions asked, and whether one contains a temporal or a comparison
\* keyword of shouldTriggerReranking
RetrieveQuestions == {"latest policy on remote work", "reset my password"}
HasRerankKeyword(query) == query = "latest policy on remote work"

\* shouldTriggerReranking(query, matches), with ENABLE_LLM_RERANKING at its
\* default
shouldTriggerReranking(query, matches) ==
  IF Len(matches) < 3 THEN FALSE
  ELSE LET scoreSpread == RatSub(EffectiveScore(matches[1]), EffectiveScore(matches[3]))
       IN  RatLt(scoreSpread, Rat(RERANK_SCORE_THRESHOLD, 1)) \/ HasRerankKeyword(query)

\* What the vector index may answer to query(queryOptions): the request
\* raises, or a response with or without matches
R1 == Match(1, 90, "policy-2022.pdf", NoValue, NoValue)
R2 == Match(2, 89, NoValue, "policy-2023.pdf", NoValue)
R3 == Match(3, 88, "policy-2024.pdf", NoValue, NoValue)
R4 == Match(4, 80, "a.md", NoValue, NoValue)
R5 == Match(5, 60, NoValue, NoValue, "https://b")
IndexFails == [fails |-> TRUE]
IndexResponses ==
  {IndexFails, [fails |-> FALSE]}
    \cup {[fails |-> FALSE, matches |-> m] :
            m \in {<<R1, R2, R3>>, <<R3, R1, R2, R4>>, <<R5, R4>>,
                   <<R4, R1, R5, R2>>, <<R2, R4, R3>>}}

\* options.feedbackLearning: none, one whose adjustRetrievalScores raises,
\* or one with the rows its two SELECTs find for the question
NoFeedbackLearning == [given |-> FALSE]
FeedbackFails == [given |-> TRUE, fails |-> TRUE]
FeedbackLearnings ==
  {NoFeedbackLearning, FeedbackFails,
   [given |-> TRUE, fails |-> FALSE, scores |-> <<>>, patterns |-> <<>>],
   [given |-> TRUE, fails |-> FALSE,
    scores |-> Put(<<>>, "a.md", [score |-> Rat(1, 1)]),
    patterns |-> <<>>],
   [given |-> TRUE, fails |-> FALSE,
    scores |-> Put(<<>>, "policy-2022.pdf", [score |-> Rat(-2, 1)]),
    patterns |-> <<<<"policy-2024.pdf">>>>]}

\* feedbackLearning.adjustRetrievalScores(matches, userQuestion) on the rows
\* given; patterns holds the sources of the row of the question, if any
adjustRetrievalScores(results, feedback) ==
  LET adjustedResults ==
        [i \in 1..Len(results) |-> AdjustBySource(results[i], feedback.scores)]
      boosted ==
        IF Len(feedback.patterns) > 0
        THEN [i \in 1..Len(adjustedResults) |->
                BoostByPattern(adjustedResults[i], feedback.patterns[1])]
        ELSE adjustedResults
  IN  SortByScore(boosted)

RetrieveFailure(error, queries, adjustments) ==
  [raised |-> TRUE, error |-> error, queries |-> queries,
   adjustments |-> adjustments, rerankings |-> 0]

\* A vector query that is sent again after a failure, which then gives
\* no match
IndexAttempts_Retry(index) ==
  IF index.fails THEN [count |-> 2, fails |-> FALSE, matches |-> <<>>]
  ELSE [count |-> 1, fails |-> FALSE,
        matches |-> IF "matches" \in DOMAIN index THEN index.matches ELSE <<>>]

\* await vectorIndex.query(queryOptions) and result.matches ?? []
IndexAttempts(index) ==
  IF index.fails THEN [count |-> 1, fails |-> TRUE]
  ELSE [count |-> 1, fails |-> FALSE,
        matches |-> IF "matches" \in DOMAIN index THEN index.matches ELSE <<>>]

\* retrieveRelevantChunks(userQuestion, options): what it returns or that it
\* raises, the requests it has made, and the list it had before re-ranking
retrieveRelevantChunks(userQuestion, embeds, index, feedback, completion) ==
  IF ~embeds THEN RetrieveFailure("embedding", 0, 0)
  ELSE LET result == IndexAttempts(index)
  IN IF result.fails THEN RetrieveFailure("index", result.count, 0)
  ELSE IF feedback.given /\ feedback.fails
  THEN RetrieveFailure("feedback", result.count, 1)
  ELSE
    LET matches == [i \in 1..Len(result.matches) |-> WithDate(result.matches[i])]
        adjustedMatches == IF feedback.given
                           THEN adjustRetrievalScores(matches, feedback)
                           ELSE matches
        sorted == SortMatches(adjustedMatches)
        topScore == IF Len(sorted) > 0 THEN EffectiveScore(sorted[1]) ELSE Rat(0, 1)
        should == shouldTriggerReranking(userQuestion, sorted)
        reranked == llmRerank(sorted, completion)
    IN  [raised |-> FALSE, queries |-> result.count,
         adjustments |-> IF feedback.given THEN 1 ELSE 0,
         rerankings |-> IF should /\ reranked.called THEN 1 ELSE 0,
         found |-> matches,
         sorted |-> sorted,
         matches |-> IF should THEN reranked.result ELSE sorted,
         belowThreshold |-> Len(sorted) = 0 \/ RatLt(topScore, Rat(MIN_SIMILARITY, 1)),
         topScore |-> topScore,
         rerankingApplied |-> should]

\* Calls explored in the specification of the retrieval; a call keeps
\* nothing from one to the next
MaxRetrievals == 1

RankedLists == {<<R1, R2>>, <<R1, R2, R3>>, <<R4, R3, R5, R1>>}

RetrieveInit ==
  /\ last = [op |-> "new", raised |-> FALSE, threw |-> FALSE]
  /\ steps = 0
  /\ memo = <<>> /\ pending = NoPending /\ chat = NewChat /\ inflight = NoCalls
  /\ db = <<>> /\ redis = EmptyRedis /\ redisEnabled = FALSE
  /\ initialized = FALSE /\ now = 0 /\ curated = {}
  /\ LearnInitial

RetrieveBudget ==
  /\ steps < MaxRetrievals /\ steps' = steps + 1
  /\ UNCHANGED <<cacheVars, scorerVars, learnVars, chat, inflight>>

\* A call of retrieveRelevantChunks; the answers of the collaborators it
\* does not reach are left at the failing one
Retrieve ==
  \E userQuestion \in RetrieveQuestions, embeds \in BOOLEAN,
     index \in IndexResponses, feedback \in FeedbackLearnings,
     completion \in Completions :
    LET out == retrieveRelevantChunks(userQuestion, embeds, index, feedback, completion)
    IN  /\ RetrieveBudget
        /\ out.queries = 0 => index = IndexFails
        /\ out.adjustments = 0 => feedback \in {NoFeedbackLearning, FeedbackFails}
        /\ out.rerankings = 0 => completion = CompletionFails
        /\ last' = [op |-> "retrieveRelevantChunks", userQuestion |-> userQuestion,
                    embeds |-> embeds, index |-> index, feedback |-> feedback,
                    completion |-> completion,
                    raised |-> out.raised,
                    threw |-> out.rerankings = 1 /\ completion.fails,
                    res |-> out]

\* A call of llmRerank from outside
Rerank ==
  \E matches \in RankedLists, completion \in Completions :
    LET out == llmRerank(matches, completion)
    IN  /\ RetrieveBudget
        /\ ~out.called => completion = CompletionFails
        /\ last' = [op |-> "llmRerank", matches |-> matches,
                    completion |-> completion, raised |-> FALSE,
                    threw |-> out.called /\ completion.fails,
                    called |-> out.called, res |-> out.result]

(***************************************************************************)
(* createSparseVector, in hybridSearch.js for the question and in          *)
(* documentIngestion.js for a chunk.  A text is a sequence of characters.  *)
(* The hash is a 32-bit integer; it is kept as two halves of 16 bits, hi   *)
(* and lo, of its unsigned value.                                          *)
(***************************************************************************)
Half == 65536

\* term.charCodeAt(i)
charCodeAt(c) ==
  CASE c = "a" -> 97  [] c = "c" -> 99  [] c = "e" -> 101 [] c = "m" -> 109
    [] c = "o" -> 111 [] c = "r" -> 114 [] c = "t" -> 116 [] c = "w" -> 119
    [] c = "y" -> 121 [] c = "9" -> 57

\* The pieces the texts are made of
Piece_aaw    == <<"a", "a", "w">>
Piece_aaw_   == <<"a", "a", "w", " ">>
Piece_ac9_   == <<"a", "c", "9", " ">>
Piece_Remote == <<"R", "e", "m", "o", "t", "e", "-">>
Piece_my_    == <<"m", "y", " ">>
Pieces == {Piece_aaw, Piece_aaw_, Piece_ac9_, Piece_Remote, Piece_my_}
MaxPieces == 3

RECURSIVE Concat(_)
Concat(ps) == IF ps = <<>> THEN <<>> ELSE Head(ps) \o Concat(Tail(ps))

Texts == {<<>>} \cup {Concat(ps) : ps \in UNION {[1..n -> Pieces] : n \in 1..MaxPieces}}

\* text.toLowerCase().match(/\b\w{3,}\b/g) || []: the runs of word
\* characters that are three or more long
RECURSIVE Tokens(_, _)
Tokens(chars, run) ==
  IF chars = <<>>
  THEN IF Len(run) >= 3 THEN <<run>> ELSE <<>>
  ELSE IF IsWord(Head(chars))
  THEN Tokens(Tail(chars), Append(run, Head(chars)))
  ELSE (IF Len(run) >= 3 THEN <<run>> ELSE <<>>) \o Tokens(Tail(chars), <<>>)

\* tokens.forEach(token => termFrequencies.set(token, (get(token) || 0) + 1)):
\* the entries of the Map, in the order of first occurrence
RECURSIVE TermFrequencies(_, _)
TermFrequencies(tokens, entries) ==
  IF tokens = <<>> THEN entries
  ELSE LET token == Head(tokens)
           seen  == \E k \in 1..Len(entries) : entries[k].term = token
       IN  TermFrequencies(Tail(tokens),
             IF seen
             THEN [k \in 1..Len(entries) |->
                     IF entries[k].term = token
                     THEN [entries[k] EXCEPT !.freq = @ + 1] ELSE entries[k]]
             ELSE Append(entries, [term |-> token, freq |-> 1]))

\* hash = (hash << 5) - hash + code; hash |= 0, that is 31 * hash + code
\* modulo 2^32
HashStep(hash, code) ==
  LET lo == hash.lo * 31 + code
      hi == hash.hi * 31 + (lo \div Half)
  IN  [hi |-> hi % Half, lo |-> lo % Half]

RECURSIVE HashOf(_, _)
HashOf(term, hash) ==
  IF term = <<>> THEN hash
  ELSE HashOf(Tail(term), HashStep(hash, charCodeAt(Head(term))))

\* The hash taken as it is, a negative one as its unsigned value
MathAbs_Unsigned(hash) == hash

\* Math.abs(hash): a hash with the top bit set is negative
MathAbs(hash) ==
  IF hash.hi < Half \div 2 THEN hash
  ELSE [hi |-> (Half - 1 - hash.hi + (IF hash.lo = 0 THEN 1 ELSE 0)) % Half,
        lo |-> (Half - hash.lo) % Half]

TermIndex(term) == MathAbs(HashOf(term, [hi |-> 0, lo |-> 0]))

\* a.index - b.index < 0
IndexLess(a, b) == a.hi < b.hi \/ (a.hi = b.hi /\ a.lo < b.lo)

\* .sort((a, b) => a.index - b.index): ascending and stable
RECURSIVE InsertByIndex(_, _)
InsertByIndex(pair, pairs) ==
  IF pairs = <<>> THEN <<pair>>
  ELSE IF IndexLess(pair.index, Head(pairs).index) THEN <<pair>> \o pairs
  ELSE <<Head(pairs)>> \o InsertByIndex(pair, Tail(pairs))

RECURSIVE SortByIndex(_)
SortByIndex(pairs) ==
  IF pairs = <<>> THEN <<>>
  ELSE LET n == Len(pairs)
       IN  InsertByIndex(pairs[n], SortByIndex(SubSeq(pairs, 1, n - 1)))

\* The loop over the sorted pairs that keeps the first pair of each index
RECURSIVE UniquePairs(_, _)
UniquePairs(pairs, unique) ==
  IF pairs = <<>> THEN unique
  ELSE UniquePairs(Tail(pairs),
         IF \E k \in 1..Len(unique) : unique[k].index = Head(pairs).index
         THEN unique ELSE Append(unique, Head(pairs)))

LowerCased(text) == [i \in 1..Len(text) |-> toLowerCase(text[i])]

\* createSparseVector(text) of hybridSearch.js
createSparseVector(text) ==
  IF text = <<>> THEN [indices |-> <<>>, values |-> <<>>]
  ELSE LET termFrequencies == TermFrequencies(Tokens(LowerCased(text), <<>>), <<>>)
           indices == [k \in 1..Len(termFrequencies) |->
                         TermIndex(termFrequencies[k].term)]
           values  == [k \in 1..Len(termFrequencies) |-> termFrequencies[k].freq]
           sortedPairs == SortByIndex([i \in 1..Len(indices) |->
                                         [index |-> indices[i], value |-> values[i]]])
           uniquePairs == UniquePairs(sortedPairs, <<>>)
       IN  [indices |-> [k \in 1..Len(uniquePairs) |-> uniquePairs[k].index],
            values  |-> [k \in 1..Len(uniquePairs) |-> uniquePairs[k].value]]

\* DocumentIngestion.createSparseVector(text) of documentIngestion.js
Ingestion_createSparseVector(text) ==
  IF text = <<>> THEN [indices |-> <<>>, values |-> <<>>]
  ELSE LET termFrequencies == TermFrequencies(Tokens(LowerCased(text), <<>>), <<>>)
           pairs == [k \in 1..Len(termFrequencies) |->
                       [index |-> TermIndex(termFrequencies[k].term),
                        value |-> termFrequencies[k].freq]]
           unique == UniquePairs(SortByIndex(pairs), <<>>)
       IN  [indices |-> [k \in 1..Len(unique) |-> unique[k].index],
            values  |-> [k \in 1..Len(unique) |-> unique[k].value]]

\* A call of createSparseVector on the question of a retrieval
QuerySparse ==
  \E text \in Texts :
    /\ RetrieveBudget
    /\ last' = [op |-> "createSparseVector", text |-> text, raised |-> FALSE,
                threw |-> FALSE, res |-> createSparseVector(text)]

\* A call of createSparseVector on a chunk of a document
IngestSparse ==
  \E text \in Texts :
    /\ RetrieveBudget
    /\ last' = [op |-> "ingestion.createSparseVector", text |-> text,
                raised |-> FALSE, threw |-> FALSE,
                res |-> Ingestion_createSparseVector(text)]

RetrieveNext ==
  \/ Retrieve
  \/ Rerank
  \/ QuerySparse
  \/ IngestSparse

RetrieveSpec == RetrieveInit /\ [][RetrieveNext]_vars

(***************************************************************************)
(* Properties.  A step is a call when last' names it; the unprimed         *)
(* variables are the state the call found.                                 *)
(***************************************************************************)
IsSet    == last'.op = "set"
IsGet    == last'.op = "get"
Key(row) == row.question_normalized
SetKey   == _normalizeQuestion(last'.question)
ProtectedResult(res) == ~res.success /\ res.reason = "protected"

C3_AutoRowGate ==
  [][\A id \in DOMAIN db :
       (/\ db[id].created_by = "auto"
        /\ IsSet /\ ~last'.raised
        /\ SetKey = Key(db[id]))
       => IF /\ db[id].positive_feedback > db[id].negative_feedback
             /\ db[id].cache_confidence >= last'.confidence
          THEN ProtectedResult(last'.res) /\ db' = db
          ELSE /\ last'.res.success
               /\ last'.res.cacheId = id
               /\ Len(db') = Len(db)
               /\ db'[id].response_text = last'.response
               /\ db'[id].cache_confidence = last'.confidence]_vars

GetNorm == _normalizeQuestion(last'.question)
GetKey  == generateCacheKey(last'.question, last'.sessionId)
\* The fast tier holds a live entry under the key of the cacheGet
FastHas == redisEnabled /\ GetKey \in DOMAIN redis /\ redis[GetKey].exp > now
Hit(res)      == res.cached
FromFast(res) == res.cached /\ res.cacheSource = "redis"
FromPg(res)   == res.cached /\ res.cacheSource = "postgresql"

\* C1: for questions Q1, Q2 with the same normalized key, a cacheGet(Q1)
\* issued after a successful cacheSet(Q2, ...) returns the entry that cacheSet
\* wrote.  Stated for the writes a lookup of either tier can serve
\* (confidence at or above the floor) and judged on the answer and the id.
C1_GetAfterSet ==
  [][(/\ last.op = "set" /\ ~last.raised /\ last.res.success
      /\ last.confidence >= minConfidence
      /\ IsGet /\ ~last'.raised
      /\ GetNorm = _normalizeQuestion(last.question))
     => /\ Hit(last'.res)
        /\ last'.res.response = last.response
        /\ last'.res.cacheId = last.res.cacheId]_vars

\* C4: after a successful cacheSet with createdBy 'manual' for a key, whether
\* it inserted the row or overwrote an automatic one, every later cacheSet
\* with createdBy 'auto' for that key returns 'protected' and leaves the
\* stored answer unchanged.
C4_CuratedStaysProtected ==
  [][\A id \in DOMAIN db :
       (/\ Key(db[id]) \in curated
        /\ IsSet /\ ~last'.raised
        /\ SetKey = Key(db[id])
        /\ last'.createdBy = "auto")
       => /\ ProtectedResult(last'.res)
          /\ db'[id].response_text = db[id].response_text]_vars

C7_VariationsServed ==
  [][/\ (IsSet /\ ~last'.raised /\ last'.res.success)
        => \E id \in DOMAIN db' :
             /\ Key(db'[id]) = SetKey
             /\ id = last'.res.cacheId
             /\ db'[id].response_text = last'.response
     /\ (/\ last.op = "set" /\ ~last.raised /\ last.res.success
         /\ last.confidence >= minConfidence
         /\ IsGet /\ ~last'.raised
         /\ last'.sessionId = NoSession
         /\ \E j \in DOMAIN last.variations : last.variations[j] = last'.question)
        => /\ Hit(last'.res)
           /\ last'.res.response = last.response
           /\ last'.res.cacheId = last.res.cacheId]_vars

\* C10: after invalidate(id) returns, the row id still exists and is inactive
\* and the fast tier holds no entry at all, so a following cacheGet of that
\* entry's question misses.
C10_InvalidateClears ==
  [][/\ (/\ last'.op = "invalidate" /\ ~last'.raised
         /\ last'.cacheId \in DOMAIN db)
        => /\ last'.res = TRUE
           /\ DOMAIN db' = DOMAIN db
           /\ ~db'[last'.cacheId].is_active
           /\ redis' = EmptyRedis
     /\ (/\ last.op = "invalidate" /\ ~last.raised
         /\ last.cacheId \in DOMAIN db
         /\ IsGet /\ ~last'.raised
         /\ GetNorm = Key(db[last.cacheId]))
        => ~Hit(last'.res)]_vars

\* C11: invalidating a cache id that is already inactive returns success
\* without error and leaves the persistent rows as they are; of two
\* consecutive calls invalidate(id); invalidate(id) the second one changes
\* nothing in either tier.
C11_InvalidateIdempotent ==
  [][(/\ last'.op = "invalidate"
      /\ last'.cacheId \in DOMAIN db
      /\ ~db[last'.cacheId].is_active)
     => /\ ~last'.raised
        /\ last'.res = TRUE
        /\ db' = db
        /\ (last.op = "invalidate" /\ last.cacheId = last'.cacheId)
             => redis' = redis]_vars

\* The rows a lookup of the persistent tier alone returns for a question
PgExact(rows, question, t) == ExactMatches(rows, _normalizeQuestion(question), t)
PgVariation(rows, question, t) == VariationMatches(rows, _normalizeQuestion(question), t)
PgAnswers(rows, question, t) ==
  IF PgExact(rows, question, t) # {} THEN PgExact(rows, question, t)
  ELSE PgVariation(rows, question, t)

\* C12: a fast-tier failure during cacheGet (health-check ping, read, TTL
\* refresh or promotion write) is never surfaced to the caller, and the call
\* returns exactly what the persistent-tier lookup yields: a servable row of
\* that lookup when there is one, a miss otherwise.
C12_GetIsolatesFastTier ==
  [][(IsGet /\ last'.threw)
     => /\ ~last'.raised
        /\ LET ids == PgAnswers(db, last'.question, now)
           IN  IF ids = {}
               THEN ~Hit(last'.res)
               ELSE /\ FromPg(last'.res)
                    /\ last'.res.cacheId \in ids
                    /\ last'.res.response = db[last'.res.cacheId].response_text]_vars

\* C13: whenever the persistent-tier upsert of a cacheSet is applied (the
\* call gets past initialization and the protection gate), cacheSet reports
\* success with the id of the row, whether or not mirroring to the fast tier
\* fails.
C13_SetIsolatesFastTier ==
  [][(/\ IsSet /\ ~last'.raised
      /\ LET ids == ExistingIds(db, SetKey)
         IN  ids = {} \/ ~IsProtected(db[MinOf(ids)], last'.confidence))
     => /\ last'.res.success
        /\ last'.res.cacheId = UpsertId(db, SetKey)
        /\ last'.res.error = NoValue]_vars

\* C14: the fast tier is an optimization only; every cacheGet yields the hit
\* or miss, and the answer, that the persistent tier alone yields for the
\* same rows.
C14_FastTierTransparent ==
  [][(IsGet /\ ~last'.raised)
     => LET ids == PgAnswers(db, last'.question, now)
        IN  /\ Hit(last'.res) <=> ids # {}
            /\ Hit(last'.res) =>
                 \E id \in ids : last'.res.response = db[id].response_text]_vars

\* C20: for every feedback that has no comment or whose rating is not
\* 'helpful', quickScore, scoreFeedback and smartScore alike return the
\* weight 1.0 for helpful, -2.0 for not-helpful and 0 for neutral, with no
\* issues, and do not request a chat completion.
C20_DeterministicScore ==
  [][(/\ last'.op \in {"quickScore", "scoreFeedback", "smartScore"}
      /\ last'.feedback.rating # "helpful" \/ NoComments(last'.feedback))
     => /\ last'.res.weight =
             (CASE last'.feedback.rating = "helpful" -> 10
                [] last'.feedback.rating = "not-helpful" -> -20
                [] OTHER -> 0)
        /\ last'.res.issues = <<>>
        /\ ~last'.called
        /\ memo' = memo]_vars

\* The score the counts of a stored row give:
\* (helpful - notHelpful x penaltyMultiplier) / max(total, 1)
ScoreOfCounts(row) ==
  Rat(row.helpful - row.not_helpful * notHelpfulMultiplier, Max(row.total, 1))

\* C15: in every state reachable by analyze and recordFeedback calls, every
\* stored source score equals (helpful - notHelpful x penaltyMultiplier) /
\* max(total, 1) over the counts stored in its own row, also right after the
\* feedback event that creates the row.
C15_ScoreFormula ==
  \A k \in DOMAIN source_scores :
    RatEq(source_scores[k].score, ScoreOfCounts(source_scores[k]))

\* C16: from any state of a source, a source without feedback included,
\* recording one 'not-helpful' event leaves a strictly lower stored score for
\* that source than recording one 'helpful' event from the same state.
C16_ScoreMonotone ==
  \A k \in SourceKeys :
    RatLt(RecordedRow(source_scores, k, "not-helpful", <<0, 0>>).score,
          RecordedRow(source_scores, k, "helpful", <<0, 0>>).score)

\* The source of a match and the score stored for it, 0 when there is none
SourceOf(match) ==
  IF match.metadata.sourceFile # NoValue THEN match.metadata.sourceFile
  ELSE IF match.metadata.source # NoValue THEN match.metadata.source
  ELSE match.metadata.url
StoredScore(match) ==
  IF SourceOf(match) \in DOMAIN source_scores
  THEN source_scores[SourceOf(match)].score
  ELSE Rat(0, 1)
\* rawScore x (1 + sourceScore x adjustmentFactor), the factor being 1/10
AdjustedByFormula(match) ==
  Rat(match.score * (10 * StoredScore(match).den + StoredScore(match).num),
      10 * StoredScore(match).den)

\* C17: adjustScores sets, for every match, adjustedScore = rawScore x (1 +
\* sourceScore x adjustmentFactor), sourceScore being 0 for a source without
\* a stored score; when the normalized query equals a stored pattern key it
\* multiplies by the pattern boost exactly the matches whose source is in
\* that pattern's sources; and it returns the matches it was given.
C17_AdjustRule ==
  [][/\ (adj.pc = "idle" /\ adj'.pc = "patterns")
        => \A i \in 1..Len(adj'.results) :
             RatEq(adj'.adjustedResults[i].adjustedScore,
                   AdjustedByFormula(adj'.results[i]))
     /\ (adj.pc = "patterns" /\ adj'.pc = "idle")
        => LET res == last'.res
               key == normalizeQuery(adj.query)
               inPattern(m) ==
                 /\ key \in DOMAIN query_patterns
                 /\ \E j \in 1..Len(query_patterns[key].sources) :
                      query_patterns[key].sources[j] = SourceOf(m)
           IN  /\ Len(res) = Len(adj.results)
               /\ {res[i].id : i \in 1..Len(res)}
                    = {adj.results[i].id : i \in 1..Len(adj.results)}
               /\ \A i \in 1..Len(res) :
                    \E j \in 1..Len(adj.results) :
                      /\ adj.results[j].id = res[i].id
                      /\ res[i].score = adj.results[j].score
                      /\ res[i].metadata = adj.results[j].metadata
                      /\ LET before == adj.adjustedResults[j].adjustedScore
                         IN  IF inPattern(adj.results[j])
                             THEN RatEq(res[i].adjustedScore,
                                        Rat(before.num * 12, before.den * 10))
                             ELSE RatEq(res[i].adjustedScore, before)]_vars

\* C17 witness: an adjustment returned three matches of which one has a
\* stored score other than 0 and was boosted by the pattern of the query, and
\* one has a source without a stored score.
C17_Witness ==
  /\ last.op = "adjustRetrievalScores"
  /\ Len(last.res) = 3
  /\ \E i \in 1..3 : /\ last.res[i].patternMatch
                     /\ last.res[i].adjusted
                     /\ ~RatEq(StoredScore(last.res[i]), Rat(0, 1))
  /\ \E i \in 1..3 : /\ SourceOf(last.res[i]) # NoValue
                     /\ ~last.res[i].adjusted /\ ~last.res[i].patternMatch
  /\ source_scores # <<>>

\* The committed state of the three tables
Store == <<source_scores, query_patterns, feedback_cache_meta>>

\* C18: analyze is atomic against the persistent store.  A call in which a
\* step fails raises the error and leaves source scores, query patterns and
\* analysis metadata as they are, and no step of a call other than its
\* COMMIT changes them, so a failed call leaves what was there before it.
C18_AnalyzeAtomic ==
  [][\A p \in Clients :
       /\ (InFlight(tx[p]) /\ tx'[p].pc = "failed")
            => /\ Store' = Store
               /\ last'.op = "analyzeFeedback" /\ last'.client = p
               /\ last'.raised
       /\ (tx'[p] # tx[p] /\ tx'[p].pc # "done") => Store' = Store]_vars

\* C18 witness: a call failed after it had scored its batch, hence after its
\* two DELETEs, while the store held the rows of an earlier analysis.
C18_Witness ==
  /\ tx[1].pc = "failed" /\ tx[1].sourceScores # <<>>
  /\ last.op = "analyzeFeedback" /\ last.raised /\ last.client = 1
  /\ source_scores # <<>> /\ query_patterns # <<>>
  /\ feedback_cache_meta.total_feedback > 0

\* The rows one analysis alone leaves in the two tables, identities aside
RebuiltScores(t) ==
  [k \in {t.sourceScores[i].key : i \in 1..Len(t.sourceScores)} |->
     ScoreValues(t.sourceScores[KeyIndex(t.sourceScores, k)])]
RebuiltPatterns(t) ==
  [k \in {t.queryPatterns[i].key : i \in 1..Len(t.queryPatterns)} |->
     [count |-> t.queryPatterns[KeyIndex(t.queryPatterns, k)].count,
      sources |-> t.queryPatterns[KeyIndex(t.queryPatterns, k)].sources]]
StoredScores ==
  [k \in DOMAIN source_scores |->
     [helpful |-> source_scores[k].helpful,
      not_helpful |-> source_scores[k].not_helpful,
      helpful_with_issues |-> source_scores[k].helpful_with_issues,
      total |-> source_scores[k].total, score |-> source_scores[k].score]]
StoredPatterns ==
  [k \in DOMAIN query_patterns |->
     [count |-> query_patterns[k].count, sources |-> query_patterns[k].sources]]

\* C19: after two overlapping analyze calls have both completed, the source
\* scores and the query patterns are those of one of the two rebuilds run
\* alone, with no row that comes only from the other batch.
C19_AnalyzeSerialized ==
  (/\ tx[1].pc = "done" /\ tx[2].pc = "done"
   /\ tx[1].overlapped /\ tx[2].overlapped)
  => \E p \in Clients : /\ StoredScores = RebuiltScores(tx[p])
                        /\ StoredPatterns = RebuiltPatterns(tx[p])

(***************************************************************************)
(* The comment scorer: the range of weights and the degraded path.         *)
(***************************************************************************)
IsScoring == last'.op \in {"quickScore", "scoreFeedback", "smartScore"}

\* C21: whatever the feedback and whatever the chat completion answers, the
\* weight a scoring method returns lies in [0, 1], or is exactly -2.0 and
\* then the rating is 'not-helpful'.
C21_WeightRange ==
  [][IsScoring =>
       \/ last'.res.weight >= 0 /\ last'.res.weight <= 10
       \/ last'.res.weight = -20 /\ last'.feedback.rating = "not-helpful"]_vars

\* A comment that quickScore hands to the chat completion
Escalated(feedback) ==
  feedback.rating = "helpful" /\ ~NoComments(feedback) /\ quickScore(feedback).needsLLM

\* C22: when the chat completion fails for an escalated comment, the call
\* does not raise, returns the adjusted rating, weight and issues of
\* quickScore for that feedback, and leaves the memo as it was.
C22_DegradesToLexical ==
  [][(last'.op \in {"scoreFeedback", "smartScore"} /\ last'.threw
        /\ Escalated(last'.feedback)) =>
       /\ ~last'.raised
       /\ last'.res.adjustedRating = quickScore(last'.feedback).adjustedRating
       /\ last'.res.weight = quickScore(last'.feedback).weight
       /\ last'.res.issues = quickScore(last'.feedback).issues
       /\ memo' = memo]_vars

\* smartScore has escalated a comment, the chat completion has failed, and
\* the memo held an entry at that moment
C22_Witness ==
  /\ last.op = "smartScore" /\ last.threw /\ Escalated(last.feedback)
  /\ Len(memo) > 0

(***************************************************************************)
(* The memo of the comment scorer under overlapping calls.                 *)
(***************************************************************************)
MemoKeys(m) == {m[i].key : i \in 1..Len(m)}

\* The call looks its key up in the memo: a helpful rating with a comment,
\* which smartScore passes on only if quickScore escalates it
LooksUp(method, feedback) ==
  /\ feedback.rating = "helpful" /\ ~NoComments(feedback)
  /\ method = "smartScore" => quickScore(feedback).needsLLM

\* The step is the return of a call that has stored its result
Stored == last'.op \in MemoMethods /\ last'.called /\ ~last'.threw

\* The step is the start of a call that finds its key in the memo
MemoHit(p, method, feedback) ==
  /\ MemoBegin(p, method, feedback)
  /\ LooksUp(method, feedback)
  /\ getCacheKey(feedback) \in MemoKeys(memo)

\* C23: however the calls overlap, the memo holds at most maxCacheSize
\* entries, one per key; a result stored into a full memo removes the entry
\* inserted earliest (the first in the order of the Map) and no other; a call
\* that finds its key in the memo returns the stored value at once, without
\* requesting the chat completion and without changing the memo.
C23_MemoBounded ==
  [][/\ Len(memo') <= maxCacheSize
     /\ Cardinality(MemoKeys(memo')) = Len(memo')
     /\ Stored =>
          LET key == getCacheKey(last'.feedback)
          IN  /\ \E i \in 1..Len(memo') :
                    memo'[i].key = key /\ memo'[i].value = last'.res
              /\ IF Len(memo) >= maxCacheSize
                 THEN /\ MemoKeys(memo') = (MemoKeys(memo) \ {memo[1].key}) \cup {key}
                      /\ \A i \in 2..Len(memo) :
                           memo[i].key # key =>
                             \E j \in 1..Len(memo') : memo'[j] = memo[i]
                 ELSE MemoKeys(memo') = MemoKeys(memo) \cup {key}
     /\ \A p \in Clients, method \in MemoMethods, feedback \in MemoFeedbacks :
          MemoHit(p, method, feedback) =>
            /\ last'.op = method /\ ~last'.called /\ ~last'.raised
            /\ \E i \in 1..Len(memo) :
                  memo[i].key = getCacheKey(feedback) /\ memo[i].value = last'.res
            /\ memo' = memo /\ pending' = pending]_vars

\* A call has stored its result into a full memo while the other call was
\* awaiting its answer, and the oldest entry is gone
C23_Witness ==
  /\ last.op \in MemoMethods /\ last.called /\ ~last.threw /\ last.full
  /\ Len(memo) = maxCacheSize
  /\ \E p \in Clients : pending[p].pc = "awaiting"

(***************************************************************************)
(* Hybrid retrieval: re-ranking, failures of the collaborators, the order  *)
(* before re-ranking and the sparse vector.                                *)
(***************************************************************************)
IsRetrieve == last'.op = "retrieveRelevantChunks"
IsRerank   == last'.op = "llmRerank"

\* Each id of list a is in list b exactly once, and the lists are equally long
SameIdsOnce(a, b) ==
  /\ Len(a) = Len(b)
  /\ \A i \in 1..Len(a) : Cardinality({j \in 1..Len(b) : b[j].id = a[i].id}) = 1

\* The matches whose index the ranking text does not name, in the order given
Omitted(matches, completion) ==
  LET pieces == completion.rankingText
      named  == {parseInt(pieces[k]).n :
                   k \in {j \in 1..Len(pieces) : ~parseInt(pieces[j]).isNaN}}
  IN  SelectSeq(matches, LAMBDA m :
        \A i \in 1..Len(matches) : matches[i] = m => (i - 1) \notin named)

\* The list after re-ranking is a rearrangement of the list before, with the
\* matches the ranking omitted at its end in their original order
Rearranged(before, after, completion) ==
  /\ SameIdsOnce(before, after)
  /\ LET omitted == Omitted(before, completion)
     IN  Len(omitted) <= Len(after)
         /\ SubSeq(after, Len(after) - Len(omitted) + 1, Len(after)) = omitted

\* C24: whatever list of indices the chat completion answers (repeated, out
\* of range or missing ones included), the list re-ranking returns is a
\* permutation of the matches before it: as long, the same ids, each once,
\* the omitted indices appended in their original order.
C24_RerankPermutation ==
  [][/\ (IsRerank /\ last'.called /\ ~last'.threw) =>
          Rearranged(last'.matches, last'.res, last'.completion)
     /\ (IsRetrieve /\ ~last'.raised /\ last'.res.rerankings = 1 /\ ~last'.threw) =>
          Rearranged(last'.res.sorted, last'.res.matches, last'.completion)]_vars

\* The chat completion has answered a text in which no piece is a number
Malformed(completion) ==
  /\ ~completion.fails
  /\ \A k \in 1..Len(completion.rankingText) :
       parseInt(completion.rankingText[k]).isNaN

C26_IndexFailurePropagates ==
  [][(IsRetrieve /\ last'.embeds /\ last'.index.fails) =>
       /\ last'.raised
       /\ last'.res.error = "index"
       /\ last'.res.queries = 1
       /\ last'.res.adjustments = 0
       /\ last'.res.rerankings = 0
       /\ "matches" \notin DOMAIN last'.res]_vars

\* A retrieval whose embedding succeeded and whose vector query failed
C26_Witness ==
  /\ last.op = "retrieveRelevantChunks"
  /\ last.embeds /\ last.index.fails /\ last.raised

\* The adjusted score of a match, or its raw score without one
ScoreOf(m) == IF "adjustedScore" \in DOMAIN m THEN m.adjustedScore ELSE Rat(m.score, 1)

\* |score(a) - score(b)| >= 0.02
FarApart(a, b) ==
  LET d == ScoreOf(a).num * ScoreOf(b).den - ScoreOf(b).num * ScoreOf(a).den
      n == ScoreOf(a).den * ScoreOf(b).den
  IN  (IF d < 0 THEN -d ELSE d) >= SimilarScores * n

\* C29: before re-ranking the matches are in descending order of adjusted
\* score with near-ties by date: of two neighbours a before b, a has the
\* higher score if the scores are 0.02 or more apart, and otherwise a date
\* not older than b's, a source without a date counting as 0.
C29_SortedBeforeRerank ==
  [][(IsRetrieve /\ ~last'.raised) =>
       LET sorted == last'.res.sorted
       IN  /\ SameIdsOnce(last'.res.found, sorted)
           /\ \A i \in 1..(Len(sorted) - 1) :
                LET a == sorted[i]
                    b == sorted[i + 1]
                IN  IF FarApart(a, b)
                    THEN RatLt(ScoreOf(b), ScoreOf(a))
                    ELSE DateValue(DateSource(a)) >= DateValue(DateSource(b))]_vars

\* A retrieval with adjusted scores in which a match stands before a
\* neighbour of higher score because its date is newer, and before another
\* neighbour because its score is higher
C29_Witness ==
  /\ last.op = "retrieveRelevantChunks" /\ ~last.raised
  /\ last.feedback.given
  /\ \E i \in 1..(Len(last.res.sorted) - 1) :
       /\ RatLt(ScoreOf(last.res.sorted[i]), ScoreOf(last.res.sorted[i + 1]))
       /\ last.res.sorted[i].dateValue > last.res.sorted[i + 1].dateValue
  /\ \E i \in 1..(Len(last.res.sorted) - 1) :
       FarApart(last.res.sorted[i], last.res.sorted[i + 1])

\* How often a token occurs in a list of tokens
Occurrences(token, tokens) == Cardinality({k \in 1..Len(tokens) : tokens[k] = token})

\* The tokens of a text: its runs of word characters of length 3 or more,
\* in lower case
TokensOf(text) == Tokens(LowerCased(text), <<>>)

\* A slot is an integer from 0 to 2^31
IsSlot(index) ==
  /\ index.hi \in 0..(Half \div 2) /\ index.lo \in 0..(Half - 1)
  /\ index.hi = Half \div 2 => index.lo = 0

IsSparse == last'.op \in {"createSparseVector", "ingestion.createSparseVector"}

\* C30: createSparseVector returns the slots in strictly increasing order,
\* one value per slot, the value being the frequency in the text of a token
\* of length 3 or more whose hash is the slot, every slot a non-negative
\* integer of the 32-bit hash; the function of the retrieval and the one of
\* the ingestion return the same vector for the same text.
C30_SparseVector ==
  [][IsSparse =>
       LET v == last'.res
           tokens == TokensOf(last'.text)
       IN  /\ Len(v.indices) = Len(v.values)
           /\ \A k \in 1..(Len(v.indices) - 1) : IndexLess(v.indices[k], v.indices[k + 1])
           /\ \A k \in 1..Len(v.indices) :
                /\ IsSlot(v.indices[k])
                /\ \E j \in 1..Len(tokens) :
                     /\ Len(tokens[j]) >= 3
                     /\ TermIndex(tokens[j]) = v.indices[k]
                     /\ v.values[k] = Occurrences(tokens[j], tokens)
           /\ \A j \in 1..Len(tokens) :
                \E k \in 1..Len(v.indices) : v.indices[k] = TermIndex(tokens[j])
           /\ v = createSparseVector(last'.text)
           /\ v = Ingestion_createSparseVector(last'.text)]_vars

\* A text with two tokens of the same hash and different frequencies, for
\* which one slot is returned
C30_Witness ==
  /\ last.op = "createSparseVector"
  /\ \E i, j \in 1..Len(TokensOf(last.text)) :
       LET tokens == TokensOf(last.text)
       IN  /\ tokens[i] # tokens[j]
           /\ TermIndex(tokens[i]) = TermIndex(tokens[j])
           /\ Occurrences(tokens[i], tokens) # Occurrences(tokens[j], tokens)
  /\ Len(last.res.indices) = 1

(***************************************************************************)
(* Feedback learning: recordFeedback against analyzeFeedback, and the      *)
(* rebuild.                                                                *)
(***************************************************************************)
\* The feedback event that recordFeedback(sourceKey, rating, issues) stands
\* for: a comment that quickScore finds a broken link in when there are
\* issues, none otherwise
EventOf(sourceKey, rating, issues) ==
  Fb("m1", rating, IF Len(issues) > 0 THEN "link is broken" ELSE NoValue, Q_Vpn,
     <<[sourceFile |-> sourceKey, url |-> NoValue, id |-> NoValue]>>)

\* The row analyzeFeedback stores for the source of a batch of that one event
BatchRow(sourceKey, rating, issues) ==
  LET acc == ProcessFeedback(<<EventOf(sourceKey, rating, issues)>>, LlmFails,
                             NoAnalysis(<<>>))
  IN  ScoreValues(acc.sourceScores[KeyIndex(acc.sourceScores, sourceKey)])

\* C27: from an empty store, recording an event with recordFeedback leaves
\* for its source the helpful, not-helpful and total counts and the score
\* that analyzeFeedback stores for the batch of that event, for helpful,
\* not-helpful and neutral ratings, with and without issues.
C27_IncrementalAgrees ==
  [][(last'.op = "recordFeedback" /\ tx' = tx /\ source_scores = <<>>
        /\ \A p \in Clients : ~InFlight(tx[p])) =>
       /\ ~last'.raised
       /\ last'.sourceKey \in DOMAIN source_scores'
       /\ LET row   == source_scores'[last'.sourceKey]
              batch == BatchRow(last'.sourceKey, last'.rating, last'.issues)
          IN  /\ row.helpful = batch.helpful
              /\ row.not_helpful = batch.not_helpful
              /\ row.total = batch.total
              /\ RatEq(row.score, batch.score)]_vars

\* The step is the COMMIT of the analyze of client p
IsCommit(p) == tx[p].pc = "commit" /\ tx'[p].pc = "done"

BatchRows(feedbackData, llm, m) ==
  LET acc == ProcessFeedback(feedbackData, llm, NoAnalysis(m))
  IN  [scores |-> RebuiltScores(acc), patterns |-> RebuiltPatterns(acc)]

QuestionChars == {"A", "a", "b", " ", "?"}
MaxQuestionLen == 4
Questions == UNION {[1..n -> QuestionChars] : n \in 0..MaxQuestionLen}
MaxKeyCalls == 1

KeyInit == RetrieveInit

KeyBudget ==
  /\ steps < MaxKeyCalls /\ steps' = steps + 1
  /\ UNCHANGED <<cacheVars, scorerVars, learnVars, chat, inflight>>

\* A call of _normalizeQuestion
NormalizeQuestion ==
  \E question \in Questions :
    /\ KeyBudget
    /\ last' = [op |-> "_normalizeQuestion", question |-> question,
                raised |-> FALSE, threw |-> FALSE,
                res |-> _normalizeQuestion(question)]

\* A call of generateCacheKey
GenerateCacheKey ==
  \E question \in Questions, sessionId \in {NoSession, "s1"} :
    /\ KeyBudget
    /\ last' = [op |-> "generateCacheKey", question |-> question,
                sessionId |-> sessionId, raised |-> FALSE, threw |-> FALSE,
                res |-> generateCacheKey(question, sessionId)]

KeyNext ==
  \/ NormalizeQuestion
  \/ GenerateCacheKey

KeySpec == KeyInit /\ [][KeyNext]_vars

\* What is left of a question once case, punctuation and surrounding or
\* repeated whitespace are put aside
Spelling(question) ==
  trim(CollapseSpaces(StripPunctuation(
    [i \in 1..Len(question) |-> toLowerCase(question[i])])))

\* C33: normalizing a normalized question changes nothing, and two
\* questions that differ only in case, punctuation and surrounding or
\* repeated whitespace have the same normalized form and the same key.
C33_NormalizeIdempotent ==
  /\ last.op = "_normalizeQuestion" =>
       /\ _normalizeQuestion(last.res) = last.res
       /\ \A other \in Questions :
            Spelling(other) = Spelling(last.question) =>
              _normalizeQuestion(other) = last.res
  /\ last.op = "generateCacheKey" =>
       \A other \in Questions :
         Spelling(other) = Spelling(last.question) =>
           generateCacheKey(other, last.sessionId) = last.res

(***************************************************************************)
(* The life of one entry in both tiers: a write, lookups and the clock,    *)
(* long enough for the entry to reach its expires_at.                      *)
(***************************************************************************)
MaxExpirySteps == 6
\* The write whose entry is followed, and the lookups of its key
ExpirySetInputs ==
  {in \in SetInputs : /\ in.question = Q_Upper /\ in.variations = <<>>
                      /\ in.createdBy = "auto" /\ in.confidence = 80}
ExpiryGetInputs == {in \in GetInputs : in[1] = Q_Plain}

ExpiryBudget ==
  steps < MaxExpirySteps /\ steps' = steps + 1 /\ UNCHANGED <<scorerVars, learnVars, chat, inflight>>

ExpirySet ==
  \E in \in ExpirySetInputs :
    /\ ExpiryBudget
    /\ Set(in.question, in.payload, in.confidence, in.ttlDays, in.variations,
           in.createdBy, "none")

ExpiryGet ==
  \E in \in ExpiryGetInputs : ExpiryBudget /\ Get(in[1], in[2], "none")

ExpiryConnect == ExpiryBudget /\ RedisConnect

ExpiryAdvance == ExpiryBudget /\ Tick

ExpiryNext ==
  \/ ExpirySet
  \/ ExpiryGet
  \/ ExpiryConnect
  \/ ExpiryAdvance

ExpirySpec == Init /\ [][ExpiryNext]_vars

\* C34: whichever tier serves it, the entry a cacheGet returns has not
\* reached the expires_at of its row in cached_responses.
C34_NoServeAfterExpiry ==
  [][(IsGet /\ ~last'.raised /\ last'.res.cached) =>
       /\ last'.res.cacheId \in DOMAIN db
       /\ db[last'.res.cacheId].expires_at > now]_vars

\* C37: a cacheGet that immediately follows a cacheSet answered 'protected'
\* for the same question returns the protecting entry.
C37_ProtectedIsServed ==
  [][(/\ IsGet /\ ~last'.raised
      /\ last.op = "set" /\ ~last.raised /\ ProtectedResult(last.res)
      /\ GetNorm = _normalizeQuestion(last.question)) =>
       /\ last'.res.cached
       /\ last'.res.cacheId = last.res.cacheId]_vars

\* What adjustRetrievalScores returns when both of its reads see the same
\* state of the tables
AdjustedFrom(results, query, scores, patterns) ==
  LET normalizedQuery == normalizeQuery(query)
      adjusted == [i \in 1..Len(results) |-> AdjustBySource(results[i], scores)]
  IN  SortByScore(
        IF normalizedQuery \in DOMAIN patterns
        THEN [i \in 1..Len(adjusted) |->
                BoostByPattern(adjusted[i], patterns[normalizedQuery].sources)]
        ELSE adjusted)

\* C32: an adjustRetrievalScores call that runs while analyzeFeedback runs
\* returns what it would compute from one committed state of source_scores
\* and query_patterns, one of those the tables were in during the call.
C32_AdjustReadsOneState ==
  [][(adj.pc = "patterns" /\ adj'.pc = "idle") =>
       \E store \in adj.stores :
         last'.res = AdjustedFrom(adj.results, adj.query, store[1], store[2])]_vars

(***************************************************************************)
(* The range of the stored scores: analyzeFeedback and recordFeedback with *)
(* every kind of answer of the chat completion, the ones whose             *)
(* adjustedWeight is not among those the prompt asks for included.         *)
(***************************************************************************)
\* An analysis whose adjustedWeight is far below zero (-25.0)
LlmNegative ==
  [fails |-> FALSE, hasIssues |-> TRUE, adjustedWeight |-> -250,
   issueTypes |-> <<"other">>]
AnyResponses == ScorerResponses \cup {LlmNegative}

\* One step of an analyzeFeedback call of the first client
RangeAnalyze ==
  /\ \/ \E feedbackData \in BatchesOf(1) : AnalyzeBegin(1, feedbackData)
     \/ AnalyzeDeleteScores(1)
     \/ AnalyzeDeletePatterns(1)
     \/ AnalyzeScoreWith(1, AnyResponses)
     \/ AnalyzeInsertScore(1)
     \/ AnalyzeInsertPattern(1)
     \/ AnalyzeUpdateMeta(1)
     \/ AnalyzeCommit(1)
     \/ AnalyzeFail(1)
  /\ Rest

RangeNext ==
  \/ RangeAnalyze
  \/ Record

RangeSpec == LearnInit /\ [][RangeNext]_vars

\* C38: every stored source score lies between -notHelpfulMultiplier and 1,
\* so that 1 + score x feedbackAdjustmentFactor, the factor
\* adjustRetrievalScores multiplies a raw score by, is above zero.
C38_ScoreRange ==
  \A k \in DOMAIN source_scores :
    LET score == source_scores[k].score
    IN  /\ ~RatLt(score, Rat(-notHelpfulMultiplier, 1))
        /\ ~RatLt(Rat(1, 1), score)
        /\ RatLt(Rat(0, 1), RatAdd(Rat(1, 1), RatMul(score, feedbackAdjustmentFactor)))

(***************************************************************************)
(* The streaming chat client (src/src/streaming/index.js).  A call of      *)
(* sendMessage runs up to its next await in one step: to the fetch, from   *)
(* the response to the first read of the stream or to response.json(),     *)
(* from one read to the next, and from the last one through its finally.   *)
(* The calls are numbered in the order they start; the AbortController of  *)
(* a call carries the number of the call, 0 is null.                       *)
(***************************************************************************)
MaxSends == 3
MaxChunks == 1
\* What the fetch resolves to: a JSON answer, an event stream, or anything
\* sendMessage throws on (401, not ok, another content type, no network)
FetchOutcomes == {"json", "stream", "error"}
\* What reader.read() resolves to
ReadOutcomes == {"value", "done", "error"}

\* A call that has reached its fetch
NewCall(force) == [pc |-> "fetch", force |-> force, aborted |-> FALSE, chunks |-> 0]

\* stopStream()
stopStream(c) ==
  IF c.abortController # 0
  THEN [c EXCEPT !.calls[c.abortController].aborted = TRUE, !.isStreaming = FALSE]
  ELSE c

\* The finally block of sendMessage, which every way out of the call runs
\* (handleStreamingResponse has cleared isStreaming in its own just before)
Returned(c, i) ==
  [c EXCEPT !.calls[i].pc = "done", !.isStreaming = FALSE, !.abortController = 0]

StreamRest == UNCHANGED <<cacheVars, scorerVars, learnVars, steps, inflight>>

\* sendMessage(message, options) up to the fetch
SendMessage ==
  \E force \in BOOLEAN :
    /\ Len(chat.calls) < MaxSends
    /\ IF chat.isStreaming /\ ~force
       THEN /\ chat' = chat
            /\ last' = [op |-> "sendMessage", force |-> force, call |-> 0,
                        raised |-> FALSE, threw |-> FALSE]
       ELSE LET c == IF chat.isStreaming THEN stopStream(chat) ELSE chat
                id == Len(chat.calls) + 1
            IN  /\ chat' = [c EXCEPT !.calls = Append(@, NewCall(force)),
                                     !.abortController = id]
                /\ last' = [op |-> "sendMessage", force |-> force, call |-> id,
                            raised |-> FALSE, threw |-> FALSE]
    /\ StreamRest

\* The fetch of a call settles: it rejects when the call was aborted
FetchSettles ==
  \E i \in DOMAIN chat.calls, outcome \in FetchOutcomes :
    /\ chat.calls[i].pc = "fetch"
    /\ chat' =
         IF chat.calls[i].aborted \/ outcome = "error" THEN Returned(chat, i)
         ELSE IF outcome = "json" THEN [chat EXCEPT !.calls[i].pc = "cached"]
         ELSE [chat EXCEPT !.calls[i].pc = "reading", !.isStreaming = TRUE]
    /\ last' = [op |-> "fetch", call |-> i, raised |-> FALSE,
                threw |-> chat.calls[i].aborted \/ outcome = "error"]
    /\ StreamRest

\* handleCachedResponse: response.json() settles and the call returns
HandleCachedResponse ==
  \E i \in DOMAIN chat.calls :
    /\ chat.calls[i].pc = "cached"
    /\ chat' = Returned(chat, i)
    /\ last' = [op |-> "handleCachedResponse", call |-> i, raised |-> FALSE,
                threw |-> chat.calls[i].aborted]
    /\ StreamRest

\* handleStreamingResponse: one reader.read() settles; it rejects when the
\* call was aborted
HandleStreamingResponse ==
  \E i \in DOMAIN chat.calls, outcome \in ReadOutcomes :
    /\ chat.calls[i].pc = "reading"
    /\ outcome = "value" => chat.calls[i].chunks < MaxChunks
    /\ chat' =
         IF ~chat.calls[i].aborted /\ outcome = "value"
         THEN [chat EXCEPT !.calls[i].chunks = @ + 1]
         ELSE Returned(chat, i)
    /\ last' = [op |-> "handleStreamingResponse", call |-> i, raised |-> FALSE,
                threw |-> chat.calls[i].aborted \/ outcome = "error"]
    /\ StreamRest

\* stopStream() called from outside
StopStream ==
  /\ chat' = stopStream(chat)
  /\ last' = [op |-> "stopStream", call |-> chat.abortController,
              raised |-> FALSE, threw |-> FALSE]
  /\ StreamRest

StreamNext ==
  \/ SendMessage
  \/ FetchSettles
  \/ HandleCachedResponse
  \/ HandleStreamingResponse
  \/ StopStream

StreamSpec == Init /\ [][StreamNext]_vars

\* A request that is in flight and has not been aborted
Running(i) == chat.calls[i].pc # "done" /\ ~chat.calls[i].aborted

\* C39: while the request of the latest sendMessage is in flight,
\* abortController is the controller of that request and isStreaming is
\* true as long as its stream is being read, whatever earlier calls have
\* done on their way out.
C39_LaterCallKeepsState ==
  \A i \in DOMAIN chat.calls :
    (i = Len(chat.calls) /\ Running(i)) =>
      /\ chat.abortController = i
      /\ chat.calls[i].pc = "reading" => chat.isStreaming

(***************************************************************************)
(* Two clients of one TieredCache whose calls overlap.  A call runs up to  *)
(* its next await of a store in one step: each SQL statement and each      *)
(* Redis command of set, get and invalidate is a step of its own.  A Redis *)
(* command issued once the connection is lost throws.  Time stands still.  *)
(***************************************************************************)
MaxRaceCalls == 3
\* The writes of each client: the same normalized key, in two spellings,
\* with answers that differ in every field
RaceSetInputs(p) ==
  IF p = 1
  THEN [question : {Q_Upper}, payload : {[response |-> "a1", sources |-> <<SrcString>>]},
        confidence : {80}, ttlDays : TtlChoices, variations : {<<>>},
        createdBy : Creators]
  ELSE [question : {Q_Plain}, payload : {[response |-> "a2", sources |-> <<SrcObject>>]},
        confidence : {90}, ttlDays : TtlChoices, variations : {<<Q_Other>>},
        createdBy : {"auto"}]
RaceGetInputs == {<<Q_Plain, NoSession>>}
RaceIds == {1}

Busy(c) == c.pc \notin {"idle", "done"}

\* The call numbered steps + 1 of client p begins; the calls in progress
\* and the new one are noted as overlapping
Begun(p, call) ==
  [q \in Clients |->
     IF q = p
     THEN call @@ [id |-> steps + 1,
                   peers |-> IF Busy(inflight[Other(p)])
                             THEN {inflight[Other(p)].id} ELSE {}]
     ELSE IF Busy(inflight[q])
          THEN [inflight[q] EXCEPT !.peers = @ \cup {steps + 1}]
          ELSE inflight[q]]

\* The call of client p returns
ReturnedCall(p, res, threw) ==
  [inflight EXCEPT ![p] = [@ EXCEPT !.pc = "done", !.res = res, !.threw = threw]]
Reported(p, res, threw) ==
  [op |-> inflight[p].op, client |-> p, call |-> inflight[p].id,
   raised |-> FALSE, threw |-> threw, res |-> res]

RaceBudget(p) ==
  /\ ~Busy(inflight[p])
  /\ steps < MaxRaceCalls /\ steps' = steps + 1
  /\ initialized' = TRUE
RaceRest == UNCHANGED <<scorerVars, learnVars, chat, now>>

SetResult(success, reason, cacheId, expiresAt, error) ==
  [success |-> success, reason |-> reason, cacheId |-> cacheId,
   expiresAt |-> expiresAt, error |-> error]

\* set: the SELECT of the protection check and the gate
RaceSetBegin(p) ==
  \E in \in RaceSetInputs(p) :
    LET normalized == _normalizeQuestion(in.question)
        ids  == ExistingIds(db, normalized)
        call == [pc |-> "upsert", op |-> "set", in |-> in, cacheId |-> 0,
                 expiresAt |-> 0, k |-> 0, order |-> 0, res |-> Null, threw |-> FALSE]
    IN  /\ RaceBudget(p)
        /\ IF ids # {} /\ IsProtected(db[MinOf(ids)], in.confidence)
           THEN LET res == SetResult(FALSE, "protected", MinOf(ids), 0, NoValue)
                IN  /\ inflight' = Begun(p, [call EXCEPT !.pc = "done", !.res = res])
                    /\ last' = [op |-> "set", client |-> p, call |-> steps + 1,
                                raised |-> FALSE, threw |-> FALSE, res |-> res]
           ELSE /\ inflight' = Begun(p, call)
                /\ last' = last
        /\ UNCHANGED <<db, redis, redisEnabled, curated>>
        /\ RaceRest

\* The Redis commands of a set: the primary key, then each variation
MirrorCommands(in, cacheId) ==
  LET cacheData == [cached |-> TRUE, hitType |-> "exact",
                    response |-> in.payload.response,
                    sources |-> enrichedSources(in.payload.sources),
                    confidence |-> in.confidence, cacheId |-> cacheId,
                    cacheSource |-> "redis"]
  IN  <<[key |-> generateCacheKey(in.question, NoSession), value |-> cacheData]>>
      \o [i \in 1..Len(in.variations) |->
            [key |-> generateCacheKey(in.variations[i], NoSession),
             value |-> [cacheData EXCEPT !.hitType = "variation"]]]

\* set: INSERT ... ON CONFLICT DO UPDATE ... RETURNING id, expires_at
RaceSetUpsert(p) ==
  LET c  == inflight[p]
      o  == inflight[Other(p)]
      in == c.in
      normalized == _normalizeQuestion(in.question)
      cacheId == UpsertId(db, normalized)
      \* the place of this upsert among those of the calls on record
      order == IF o.pc # "idle" /\ o.op = "set" THEN o.order + 1 ELSE 1
      res == SetResult(TRUE, NoValue, cacheId, db'[cacheId].expires_at, NoValue)
  IN  /\ c.pc = "upsert"
      /\ db' = Upsert(db, normalized, in.variations, in.payload.response,
                      enrichedSources(in.payload.sources), in.confidence,
                      in.ttlDays, in.createdBy, now)
      /\ curated' = IF in.createdBy = "manual" THEN curated \cup {normalized}
                    ELSE curated
      /\ IF redisEnabled
         THEN /\ inflight' = [inflight EXCEPT ![p] =
                    [@ EXCEPT !.pc = "mirror", !.k = 1, !.cacheId = cacheId,
                              !.expiresAt = db'[cacheId].expires_at,
                              !.order = order]]
              /\ last' = last
         ELSE /\ inflight' = [ReturnedCall(p, res, FALSE) EXCEPT
                                ![p].cacheId = cacheId, ![p].order = order]
              /\ last' = Reported(p, res, FALSE)
      /\ UNCHANGED <<redis, redisEnabled, initialized, steps>>
      /\ RaceRest

\* set: one redis.setex
RaceSetMirror(p) ==
  LET c    == inflight[p]
      cmds == MirrorCommands(c.in, c.cacheId)
      ok   == SetResult(TRUE, NoValue, c.cacheId, c.expiresAt, NoValue)
      err  == SetResult(FALSE, NoValue, 0, 0, "redis")
  IN  /\ c.pc = "mirror"
      /\ IF ~redisEnabled
         THEN /\ redis' = redis
              /\ inflight' = ReturnedCall(p, err, TRUE)
              /\ last' = Reported(p, err, TRUE)
         ELSE /\ redis' = setex(redis, cmds[c.k].key, redisTTL, cmds[c.k].value, now)
              /\ IF c.k = Len(cmds)
                 THEN /\ inflight' = ReturnedCall(p, ok, FALSE)
                      /\ last' = Reported(p, ok, FALSE)
                 ELSE /\ inflight' = [inflight EXCEPT ![p].k = @ + 1]
                      /\ last' = last
      /\ UNCHANGED <<db, redisEnabled, initialized, curated, steps>>
      /\ RaceRest

\* get: redis.get(cacheKey)
RaceGetBegin(p) ==
  \E in \in RaceGetInputs :
    LET cacheKey == generateCacheKey(in[1], in[2])
        found == /\ redisEnabled /\ cacheKey \in DOMAIN redis
                 /\ redis[cacheKey].exp > now
        call == [pc |-> "select", op |-> "get", question |-> in[1],
                 sessionId |-> in[2], cached |-> Null, res |-> Null,
                 threw |-> FALSE]
    IN  /\ RaceBudget(p)
        /\ inflight' = Begun(p, IF found
                                THEN [call EXCEPT !.pc = "expire",
                                                  !.cached = redis[cacheKey].data]
                                ELSE call)
        /\ last' = last
        /\ UNCHANGED <<db, redis, redisEnabled, curated>>
        /\ RaceRest

\* get: redis.expire(cacheKey, redisTTL) after a hit of the fast tier; when
\* it throws the lookup goes on to the persistent tier
RaceGetExpire(p) ==
  LET c == inflight[p]
      cacheKey == generateCacheKey(c.question, c.sessionId)
      res == [c.cached EXCEPT !.cacheSource = "redis"]
  IN  /\ c.pc = "expire"
      /\ IF redisEnabled
         THEN /\ redis' = IF cacheKey \in DOMAIN redis
                          THEN expire(redis, cacheKey, redisTTL, now) ELSE redis
              /\ inflight' = ReturnedCall(p, res, FALSE)
              /\ last' = Reported(p, res, FALSE)
         ELSE /\ redis' = redis
              /\ inflight' = [inflight EXCEPT ![p].pc = "select", ![p].threw = TRUE]
              /\ last' = last
      /\ UNCHANGED <<db, redisEnabled, initialized, curated, steps>>
      /\ RaceRest

\* get: the SELECT of the exact match, then the one of the variations
RaceGetSelect(p) ==
  LET c == inflight[p]
      normalized == _normalizeQuestion(c.question)
      exact     == ExactMatches(db, normalized, now)
      variation == VariationMatches(db, normalized, now)
      FoundRow(id, hitType) ==
        inflight' = [inflight EXCEPT ![p].pc = "promote",
                       ![p].cached = _buildCacheResponse(db[id], id, hitType)]
  IN  /\ c.pc = "select"
      /\ IF exact # {} THEN (\E id \in exact : FoundRow(id, "exact")) /\ last' = last
         ELSE IF variation # {}
         THEN (\E id \in variation : FoundRow(id, "variation")) /\ last' = last
         ELSE /\ inflight' = ReturnedCall(p, Null, c.threw)
              /\ last' = Reported(p, Null, c.threw)
      /\ UNCHANGED <<db, redis, redisEnabled, initialized, curated, steps>>
      /\ RaceRest

\* get: _promoteToRedis, and the return
RaceGetPromote(p) ==
  LET c == inflight[p]
      cacheKey == generateCacheKey(c.question, c.sessionId)
  IN  /\ c.pc = "promote"
      /\ redis' = _promoteToRedis(redis, redisEnabled, FALSE, cacheKey, c.cached, now)
      /\ inflight' = ReturnedCall(p, c.cached, c.threw)
      /\ last' = Reported(p, c.cached, c.threw)
      /\ UNCHANGED <<db, redisEnabled, initialized, curated, steps>>
      /\ RaceRest

\* invalidate: UPDATE cached_responses SET is_active = FALSE WHERE id = $1
RaceInvalidateBegin(p) ==
  \E cacheId \in RaceIds :
    LET call == [pc |-> "keys", op |-> "invalidate", cacheId |-> cacheId,
                 keys |-> {}, res |-> FALSE, threw |-> FALSE]
    IN  /\ RaceBudget(p)
        /\ db' = IF cacheId \in DOMAIN db
                 THEN [db EXCEPT ![cacheId].is_active = FALSE] ELSE db
        /\ IF redisEnabled
           THEN /\ inflight' = Begun(p, call)
                /\ last' = last
           ELSE /\ inflight' = Begun(p, [call EXCEPT !.pc = "done", !.res = TRUE])
                /\ last' = [op |-> "invalidate", client |-> p, call |-> steps + 1,
                            raised |-> FALSE, threw |-> FALSE, res |-> TRUE]
        /\ UNCHANGED <<redis, redisEnabled, curated>>
        /\ RaceRest

\* clearRedisCache: redis.keys('cache:*')
RaceInvalidateKeys(p) ==
  LET c    == inflight[p]
      keys == DOMAIN Unexpired(redis, now)
  IN  /\ c.pc = "keys"
      /\ IF redisEnabled /\ keys # {}
         THEN /\ inflight' = [inflight EXCEPT ![p].pc = "del", ![p].keys = keys]
              /\ last' = last
         ELSE /\ inflight' = ReturnedCall(p, TRUE, FALSE)
              /\ last' = Reported(p, TRUE, FALSE)
      /\ UNCHANGED <<db, redis, redisEnabled, initialized, curated, steps>>
      /\ RaceRest

\* clearRedisCache: redis.del(...keys); when it throws the error is kept in
\* clearRedisCache
RaceInvalidateDel(p) ==
  LET c == inflight[p]
  IN  /\ c.pc = "del"
      /\ redis' = IF redisEnabled
                  THEN [k \in DOMAIN redis \ c.keys |-> redis[k]] ELSE redis
      /\ inflight' = ReturnedCall(p, TRUE, ~redisEnabled)
      /\ last' = Reported(p, TRUE, ~redisEnabled)
      /\ UNCHANGED <<db, redisEnabled, initialized, curated, steps>>
      /\ RaceRest

RaceSet == \E p \in Clients : RaceSetBegin(p)
RaceUpsert == \E p \in Clients : RaceSetUpsert(p)
RaceMirror == \E p \in Clients : RaceSetMirror(p)
RaceGet == \E p \in Clients : RaceGetBegin(p)
RaceExpire == \E p \in Clients : RaceGetExpire(p)
RaceSelect == \E p \in Clients : RaceGetSelect(p)
RacePromote == \E p \in Clients : RaceGetPromote(p)
RaceInvalidate == \E p \in Clients : RaceInvalidateBegin(p)
RaceKeys == \E p \in Clients : RaceInvalidateKeys(p)
RaceDel == \E p \in Clients : RaceInvalidateDel(p)
RaceConnect == RedisConnect /\ UNCHANGED <<steps, inflight>> /\ RaceRest
RaceDisconnect == RedisError /\ UNCHANGED <<steps, inflight>> /\ RaceRest

RaceNext ==
  \/ RaceSet
  \/ RaceUpsert
  \/ RaceMirror
  \/ RaceGet
  \/ RaceExpire
  \/ RaceSelect
  \/ RacePromote
  \/ RaceInvalidate
  \/ RaceKeys
  \/ RaceDel
  \/ RaceConnect
  \/ RaceDisconnect

RaceSpec == Init /\ [][RaceNext]_vars

\* Both clients have completed a set that passed the protection gate, and
\* the two calls overlapped
SetsRaced ==
  /\ \A p \in Clients : /\ inflight[p].pc = "done" /\ inflight[p].op = "set"
                        /\ inflight[p].order > 0
  /\ inflight[1].id \in inflight[2].peers
\* The call whose upsert was applied last
LastWriter == CHOOSE p \in Clients : inflight[p].order > inflight[Other(p)].order
RowOfKey(normalized) == db[MinOf(ExistingIds(db, normalized))]
\* The row holds the fields of the call of client p
RowIsFrom(row, p) ==
  /\ row.response_text = inflight[p].in.payload.response
  /\ row.sources_used = enrichedSources(inflight[p].in.payload.sources)
  /\ row.cache_confidence = inflight[p].in.confidence
  /\ row.question_variations = inflight[p].in.variations

\* C31: when two overlapping cacheSet calls for one normalized key have both
\* passed the protection gate and completed, the row holds the answer,
\* sources, confidence and variations of the call whose upsert was applied
\* last, and both calls have reported success with the same cache id.
C31_LastWriterWins ==
  SetsRaced =>
    /\ RowIsFrom(RowOfKey(_normalizeQuestion(Q_Upper)), LastWriter)
    /\ \A p \in Clients : inflight[p].res.success
    /\ inflight[1].res.cacheId = inflight[2].res.cacheId

\* C36: when two overlapping cacheSet calls for one normalized key have both
\* succeeded and completed, the fast-tier copy under the primary key has the
\* answer and the confidence of the persistent row of the key.
C36_TiersAgreeAfterRace ==
  (SetsRaced /\ \A p \in Clients : inflight[p].res.success) =>
    LET key == generateCacheKey(Q_Upper, NoSession)
        row == RowOfKey(_normalizeQuestion(Q_Upper))
    IN  (key \in DOMAIN redis /\ redis[key].exp > now) =>
          /\ redis[key].data.response = row.response_text
          /\ redis[key].data.confidence = row.cache_confidence

\* The fast tier holds a live copy of the entry with that id
FastCopyOf(cacheId) ==
  \E key \in DOMAIN redis :
    redis[key].exp > now /\ redis[key].data.cacheId = cacheId

\* C35: once a cacheGet and an invalidate(id) of the entry that answers it
\* have both completed, in whatever order their steps ran and whether or not
\* the fast tier was available to the invalidate, the fast tier holds no
\* copy of the invalidated entry.
C35_NoCopyAfterInvalidate ==
  \A p \in Clients :
    LET inv == inflight[p]
        get == inflight[Other(p)]
    IN  (/\ inv.pc = "done" /\ inv.op = "invalidate"
         /\ get.pc = "done" /\ get.op = "get"
         /\ inv.cacheId \in DOMAIN db /\ ~db[inv.cacheId].is_active) =>
          ~FastCopyOf(inv.cacheId)

====
